---------------------------- MODULE Spec2Model ----------------------------
(***************************************************************************)
(* A model of the print engine (harshil90956/print-engine):                *)
(*   - write_final_pdf (app/services/pdf_writer.py): the serial generator, *)
(*     the page/slot loop, the slot and object geometry, the canvas calls  *)
(*     of a slot, and the upload and result of render_job that follow it,  *)
(*   - the template cache (app/services/template.py) and the cached        *)
(*     background conversion (app/services/normalize.py) as driven by      *)
(*     render_job (app/services/render.py),                                *)
(*   - the font registry (app/services/font_registry.py).                  *)
(* Each part has its own specification; the variables of the other parts   *)
(* stay at their initial values.                                           *)
(***************************************************************************)
EXTENDS Naturals, Integers, Sequences, FiniteSets, TLC

(***************************************************************************)
(* Bounds of the model.                                                    *)
(***************************************************************************)
MaxStartLen == 3
MaxCount == 5
MaxOverlays == 2

(***************************************************************************)
(* State.                                                                  *)
(***************************************************************************)
VARIABLES
    \* write_final_pdf
    wcfg,          \* the inputs of this run
    wpc,           \* "start", "slot", "save", "upload", "return", "done", "error"
    werr,          \* the error raised, "" when none
    parsed,        \* (prefix, base, width) of the series start
    total_pages,
    page,          \* _page of the outer loop
    slot_index,    \* slot_index of the inner loop
    serial_index,
    visited,       \* one entry per slot iteration, in the order of the loop
    ops,           \* the canvas calls so far
    pages_out,     \* canvas.showPage() calls so far
    saved,         \* canvas.save() was called
    s3_pdf,        \* the output PDF was uploaded
    result,        \* what render_job returned, NoResult before
    \* compute_template_id
    payA, payB,    \* the keyword arguments of two calls of compute_template_id
    idA, idB,      \* what the calls returned, NoId before the call
    \* template cache, background cache and render_job
    pc,            \* the position of each caller, "idle" between calls
    call,          \* the request a caller is serving
    largs,         \* the keyword arguments of its load_or_create_template call
    tmpl,          \* the Template that call returned
    tstore,        \* tmp/templates/<template_id>.json, one per id that has a file
    pdfs,          \* tmp/templates/<svg_hash>_orig_v1.pdf, per path
    ncalls,        \* calls started so far
    conv_count,    \* cairosvg.svg2pdf invocations, per path
    conv_done,     \* conversions that left a PDF, per path
    twrites,       \* write_text calls on the record, per template id
    loclog,        \* the load_or_create_template calls that ended
    joblog,        \* the render_job requests that ended
    outputs,       \* job ids whose tmp/final_<job_id>.pdf was written
    uploaded,      \* job ids whose PDF was uploaded
    \* font registry
    fpc,           \* the position of each thread, "idle" between calls
    fcall,         \* the call a thread is serving
    freg,          \* the registry list a thread holds, 0 when none
    lru,           \* the list lru_cache holds for get_font_registry, 0 when none
    builds,        \* runs of the body of get_font_registry
    registered,    \* pdfmetrics.getRegisteredFontNames()
    nfcalls,       \* calls started so far
    fgot,          \* the registry lists callers received
    flog,          \* the resolve_font_family calls that ended
    fhist,         \* the last two of them, in the order they returned
    \* outline_text_ops_pt_with_metrics
    otext,         \* text
    ofont,         \* the font _load_font returned
    osize,         \* font_size_pt
    opc,           \* "start", "loop", "done", "error"
    ocursor,       \* cursor_x_units
    oprev,         \* prev_glyph_name, "" for None
    odrawn,        \* per character drawn: its glyph and the cursor it was drawn at
    oadv,          \* advances_pt
    oraw,          \* the x coordinates of raw_ops
    oret,          \* the x coordinates of the returned operations
    \* _font_family_from_file
    nnames,        \* the records of the font's name table
    npos,          \* the records the loop has passed
    nbest,         \* best
    npc,           \* "idle", "open", "loop", "done"
    nret,          \* the value returned
    \* svg_to_pdf_cached_original_size, step by step
    bg,            \* per caller: where it is, its SVG, its open file, the output
    bfile,         \* the file at each cache path
    bcalls,        \* calls made
    blog,          \* the calls that ended
    bdel           \* the files that were unlinked

vars_pdf == <<wcfg, wpc, werr, parsed, total_pages, page, slot_index,
              serial_index, visited, ops, pages_out, saved, s3_pdf, result>>
vars_hash == <<payA, payB, idA, idB>>
vars_cache == <<pc, call, largs, tmpl, tstore, pdfs, ncalls, conv_count,
                conv_done, twrites, loclog, joblog, outputs, uploaded>>
vars_font == <<fpc, fcall, freg, lru, builds, registered, nfcalls, fgot, flog, fhist>>
vars_outline == <<otext, ofont, osize, opc, ocursor, oprev, odrawn, oadv, oraw, oret>>
vars_names == <<nnames, npos, nbest, npc, nret>>
vars_bg == <<bg, bfile, bcalls, blog, bdel>>
vars == <<vars_pdf, vars_hash, vars_cache, vars_font, vars_outline, vars_names, vars_bg>>

\* What a specification of one part leaves alone.
not_pdf == <<vars_hash, vars_cache, vars_font, vars_outline, vars_names, vars_bg>>
not_hash == <<vars_pdf, vars_cache, vars_font, vars_outline, vars_names, vars_bg>>
not_cache == <<vars_pdf, vars_hash, vars_font, vars_outline, vars_names, vars_bg>>
not_font == <<vars_pdf, vars_hash, vars_cache, vars_outline, vars_names, vars_bg>>
not_outline == <<vars_pdf, vars_hash, vars_cache, vars_font, vars_names, vars_bg>>
not_names == <<vars_pdf, vars_hash, vars_cache, vars_font, vars_outline, vars_bg>>
not_bg == <<vars_pdf, vars_hash, vars_cache, vars_font, vars_outline, vars_names>>

(***************************************************************************)
(* Program constants.                                                      *)
(***************************************************************************)
A4_WIDTH_MM == 210
A4_HEIGHT_MM == 297
OBJECTS_PER_PAGE == 4

(***************************************************************************)
(* Strings are sequences of one-character strings.                         *)
(***************************************************************************)
NL == "\n"
DigitSeq == <<"0", "1", "2", "3", "4", "5", "6", "7", "8", "9">>
DigitChars == {DigitSeq[i] : i \in 1..10}
Alphabet == {"A", " ", "0", "9", NL}

IsDigit(c) == c \in DigitChars
DigitVal(c) == (CHOOSE i \in 1..10 : DigitSeq[i] = c) - 1

\* int(number_part): the value of a run of decimal digits.
RECURSIVE IntOf(_)
IntOf(ds) ==
    IF Len(ds) = 0 THEN 0
    ELSE 10 * IntOf(SubSeq(ds, 1, Len(ds) - 1)) + DigitVal(ds[Len(ds)])

\* str(n) for n >= 0: the decimal digits of n, no leading zeros.
RECURSIVE StrOf(_)
StrOf(n) ==
    IF n < 10 THEN <<DigitSeq[n + 1]>>
    ELSE Append(StrOf(n \div 10), DigitSeq[(n % 10) + 1])

Zeros(k) == [j \in 1..k |-> "0"]

\* s.zfill(width) for a string of digits.
ZFillNoPad(s, width) == s
ZFill(s, width) ==
    IF Len(s) >= width THEN s ELSE Zeros(width - Len(s)) \o s

(***************************************************************************)
(* _parse_series_start: re.search(r"(\d+)$", start).  "$" matches at the   *)
(* end of the string and also just before a newline that ends the string;  *)
(* the search returns the leftmost match, which is the whole digit run     *)
(* that ends there.                                                        *)
(***************************************************************************)
MatchEnd(s) ==
    IF Len(s) >= 1 /\ IsDigit(s[Len(s)]) THEN Len(s)
    ELSE IF Len(s) >= 2 /\ s[Len(s)] = NL /\ IsDigit(s[Len(s) - 1]) THEN Len(s) - 1
    ELSE 0

MatchStart(s) ==
    LET e == MatchEnd(s)
    IN  CHOOSE i \in 1..e :
            /\ \A k \in i..e : IsDigit(s[k])
            /\ (i = 1 \/ ~IsDigit(s[i - 1]))

ParseOk(s) == MatchEnd(s) > 0

\* (prefix_part, int(number_part), len(number_part)); only when ParseOk(s).
_parse_series_start(s) ==
    LET e == MatchEnd(s)
        i == MatchStart(s)
    IN  [prefix |-> SubSeq(s, 1, i - 1),
         base   |-> IntOf(SubSeq(s, i, e)),
         width  |-> e - i + 1]

_series_value(prefix, base, width, i) == prefix \o ZFill(StrOf(base + i), width)

\* total_pages = (count + (OBJECTS_PER_PAGE - 1)) // OBJECTS_PER_PAGE
TotalPagesFloor(count) == count \div OBJECTS_PER_PAGE
TotalPages(count) == (count + (OBJECTS_PER_PAGE - 1)) \div OBJECTS_PER_PAGE

\* serial_index += 1
NextSerialIndexSkip(i) == i + 2
NextSerialIndex(i) == i + 1

(***************************************************************************)
(* Lengths.  A length in mm is counted in eighths of a millimetre and a     *)
(* length in pt in 1/1016 of a point, so that mm * 72 / 25.4 and every      *)
(* halving and quartering below is exact: the model computes in the         *)
(* rationals what the program computes in binary floating point.            *)
(***************************************************************************)
Mm(n) == 8 * n

\* mm_to_pt(mm) = mm * POINTS_PER_MM, POINTS_PER_MM = 72 / 25.4
mm_to_pt(mm) == 360 * mm

\* a / b for two lengths in pt whose quotient is a length in mm
PtRatioMm(a, b) == (a * Mm(1)) \div b

\* _page_size_pt
PageWPt == mm_to_pt(Mm(A4_WIDTH_MM))
PageHPt == mm_to_pt(Mm(A4_HEIGHT_MM))

(***************************************************************************)
(* Optional values of the request dicts: a number, None, or a value that    *)
(* float() rejects.                                                        *)
(***************************************************************************)
None == [kind |-> "none", val |-> 0]
Unparsable == [kind |-> "bad", val |-> 0]
Num(v) == [kind |-> "num", val |-> v]

\* d.get("x_mm"), falling back to d.get("x") when that is None
GetOr(first, second) == IF first = None THEN second ELSE first

\* str(v).strip().lower() on the tokens the inputs carry ("" for None)
TokenPairs ==
    << <<" Right ", "right">>, <<"RIGHT", "right">>, <<"Left", "left">>,
       <<" OBJECT_MM ", "object_mm">>, <<"Object_mm", "object_mm">>,
       <<" ", "">> >>
StripLower(s) ==
    IF \E i \in DOMAIN TokenPairs : TokenPairs[i][1] = s
    THEN TokenPairs[CHOOSE i \in DOMAIN TokenPairs : TokenPairs[i][1] = s][2]
    ELSE s

\* Lines 368-376: the cut margin; None, unparsable and negative become 0.
CutMarginNoClamp(raw) == IF raw.kind = "num" THEN raw.val ELSE 0
CutMarginMm(raw) ==
    IF raw.kind # "num" THEN 0
    ELSE IF raw.val < 0 THEN 0
    ELSE raw.val

\* Lines 378-381
SlotHPt(mode, cut_margin_mm) ==
    IF mode = "exact_mm"
    THEN (PageHPt - ((OBJECTS_PER_PAGE - 1) * mm_to_pt(cut_margin_mm))) \div OBJECTS_PER_PAGE
    ELSE PageHPt \div OBJECTS_PER_PAGE

\* Line 382
SlotHMm(mode, cut_margin_mm) ==
    PtRatioMm(SlotHPt(mode, cut_margin_mm), mm_to_pt(Mm(1)))

\* Lines 392-405: the slot rectangle (x, y of the bottom-left corner in pt,
\* y_top the distance of its top edge from the top of the page).
SlotRect(mode, cut_margin_mm, k) ==
    LET slot_h_pt == SlotHPt(mode, cut_margin_mm)
        slot_h_mm == SlotHMm(mode, cut_margin_mm)
    IN  IF mode = "exact_mm" THEN
            LET slot_y_mm == k * (slot_h_mm + cut_margin_mm)
                slot_y_top_pt == mm_to_pt(slot_y_mm)
            IN  [x |-> mm_to_pt(0), y |-> PageHPt - slot_y_top_pt - slot_h_pt,
                 w |-> PageWPt, h |-> slot_h_pt, y_top |-> slot_y_top_pt]
        ELSE
            LET slot_y_pt == PageHPt - ((k + 1) * slot_h_pt)
            IN  [x |-> 0, y |-> slot_y_pt, w |-> PageWPt, h |-> slot_h_pt,
                 y_top |-> PageHPt - slot_y_pt - slot_h_pt]

\* _object_size_pt, lines 250-263: "" when the size is usable
ObjectSizeError(cfg) ==
    IF cfg.w = None \/ cfg.h = None
    THEN "object_mm.w and object_mm.h are required"
    ELSE IF mm_to_pt(cfg.w.val) <= 0 \/ mm_to_pt(cfg.h.val) <= 0
    THEN "object_mm.w and object_mm.h must be > 0"
    ELSE ""

\* Lines 431-454: the horizontal origin of the object in exact_mm.
ObjectX(cfg, slot, object_w_pt) ==
    LET x_mm == GetOr(cfg.x_mm, cfg.x)
        x_offset_pt == IF x_mm # None THEN mm_to_pt(x_mm.val) ELSE 0
        alignment == StripLower(IF cfg.alignment = "" THEN "center" ELSE cfg.alignment)
    IN  IF x_mm # None /\ x_mm.val = 0 THEN
            IF alignment = "right" THEN (0 + PageWPt) - object_w_pt ELSE 0
        ELSE IF alignment = "left" THEN slot.x + x_offset_pt
        ELSE IF alignment = "right" THEN slot.x + slot.w - object_w_pt + x_offset_pt
        ELSE slot.x + ((slot.w - object_w_pt) \div 2) + x_offset_pt

\* Lines 456-460
ObjectY(cfg, slot, object_h_pt) ==
    LET y_mm == GetOr(cfg.y_mm, cfg.y)
        y_offset_pt == IF y_mm # None THEN mm_to_pt(y_mm.val) ELSE 0
    IN  (PageHPt - slot.y_top) - object_h_pt - y_offset_pt

\* Lines 430-464: the rectangle of the object.
ObjectRectCorner(cfg, slot) ==
    [x |-> slot.x, y |-> slot.y, w |-> mm_to_pt(cfg.w.val), h |-> mm_to_pt(cfg.h.val)]
ObjectRect(cfg, slot) ==
    LET object_w_pt == mm_to_pt(cfg.w.val)
        object_h_pt == mm_to_pt(cfg.h.val)
    IN  IF cfg.mode = "exact_mm"
        THEN [x |-> ObjectX(cfg, slot, object_w_pt),
              y |-> ObjectY(cfg, slot, object_h_pt),
              w |-> object_w_pt, h |-> object_h_pt]
        ELSE [x |-> slot.x + ((slot.w - object_w_pt) \div 2),
              y |-> slot.y + ((slot.h - object_h_pt) \div 2),
              w |-> object_w_pt, h |-> object_h_pt]

\* Lines 310-322: the per-letter sizes kept for drawing; entries float()
\* rejects and entries that are not positive are left out.
RECURSIVE PerLetterSizes(_)
PerLetterSizes(raw) ==
    IF raw = <<>> THEN <<>>
    ELSE LET v == Head(raw)
         IN  IF v.kind = "num" /\ v.val > 0
             THEN <<v.val>> \o PerLetterSizes(Tail(raw))
             ELSE PerLetterSizes(Tail(raw))

\* Line 578: the size of character i (from 1) of the serial.
GlyphSizeMm(per_letter_sizes_mm, font_size_mm, i) ==
    IF per_letter_sizes_mm # <<>> /\ i <= Len(per_letter_sizes_mm)
    THEN per_letter_sizes_mm[i]
    ELSE font_size_mm

\* Lines 576-581: the sizes the characters of one serial are drawn with.
GlyphSizes(cfg, serial) ==
    LET kept == IF cfg.per_letter.kind = "list"
                THEN PerLetterSizes(cfg.per_letter.items) ELSE <<>>
    IN  [i \in 1..Len(serial) |-> GlyphSizeMm(kept, cfg.font_size_mm, i)]

\* Lines 536-540: "" when the series placement is accepted.
AnchorErrorNever(cfg) == ""
AnchorError(cfg) ==
    IF StripLower(cfg.anchor_space) # "object_mm"
       \/ cfg.series_x_mm = None \/ cfg.series_y_mm = None
    THEN "series placement invalid"
    ELSE ""

(***************************************************************************)
(* The canvas.  ops is the sequence of canvas calls that draw or that       *)
(* change the graphics state; n is the number of the slot iteration         *)
(* (page * OBJECTS_PER_PAGE + slot_index).                                  *)
(***************************************************************************)
Op(name, n, what) == [op |-> name, n |-> n, what |-> what]

\* Lines 495-523: the background of one slot.
BackgroundOps(cfg, n) ==
    << Op("saveState", n, "background"),
       Op("clipPath", n, IF cfg.mode = "exact_mm" THEN "slot" ELSE "object"),
       Op("doForm", n, "background"),
       Op("restoreState", n, "background") >>

\* _draw_overlay, lines 102-204.  An overlay is [id, kind]:
\*   "svg_ref"      type svg with an s3 key and scale > 0
\*   "svg_ref_off"  type svg with an s3 key and scale <= 0: returns at 120
\*   "empty"        no data_url: returns at 154
\*   "image"        a data_url of an image
\*   "svg_data"     a data_url of an svg
\*   "svg_bad"      a data_url of an svg without extent: raises at 193
OverlayKinds == {"svg_ref", "svg_ref_off", "empty", "image", "svg_data", "svg_bad"}
OverlayRaises(ov) == ov.kind = "svg_bad"
OverlayOps(ov, n) ==
    IF ov.kind \in {"svg_ref_off", "empty"} THEN <<>>
    ELSE IF ov.kind = "svg_bad" THEN << Op("saveState", n, ov.id) >>
    ELSE << Op("saveState", n, ov.id),
            Op(IF ov.kind = "image" THEN "drawImage" ELSE "doForm", n, ov.id),
            Op("restoreState", n, ov.id) >>

\* Lines 526-534: the overlays in list order, up to the first that raises.
RECURSIVE OverlaysOps(_, _)
OverlaysOps(ovs, n) ==
    IF ovs = <<>> THEN <<>>
    ELSE IF OverlayRaises(Head(ovs)) THEN OverlayOps(Head(ovs), n)
    ELSE OverlayOps(Head(ovs), n) \o OverlaysOps(Tail(ovs), n)

OverlaysRaise(ovs) == \E i \in DOMAIN ovs : OverlayRaises(ovs[i])

\* Lines 566-586: the serial text.
TextOps(n) ==
    << Op("saveState", n, "text"), Op("drawText", n, "text"),
       Op("restoreState", n, "text") >>

\* Lines 495-586: the canvas calls of one filled slot.
SlotOpsTextFirst(cfg, n) ==
    TextOps(n) \o BackgroundOps(cfg, n) \o OverlaysOps(cfg.overlays, n)
SlotOps(cfg, n) ==
    BackgroundOps(cfg, n) \o OverlaysOps(cfg.overlays, n) \o TextOps(n)

(***************************************************************************)
(* write_final_pdf as render_job calls it.  The inputs it reads from the    *)
(* template (lengths in mm, overlays as above):                             *)
(*   start, count, font_size_mm, per_letter, anchor_space, series_x_mm,     *)
(*   series_y_mm            series_config                                   *)
(*   w, h, x_mm, x, y_mm, y, alignment, cut_margin_mm    object_box_mm      *)
(*   mode                   "exact_mm" or "legacy" (anything else)          *)
(*   custom_fonts           "ok", or "bad" when a font cannot be registered *)
(*   background             "pdf", "missing" (no %PDF- file at the path) or *)
(*                          "flat" (a MediaBox without extent)              *)
(*   upload_ok              whether upload_pdf_to_s3 succeeds               *)
(***************************************************************************)
Starts == UNION {[1..n -> Alphabet] : n \in 1..MaxStartLen}
Modes == {"exact_mm", "legacy"}

NoList == [kind |-> "none", items |-> <<>>]
NotAList == [kind |-> "scalar", items |-> <<>>]
ListOfSizes(items) == [kind |-> "list", items |-> items]

DefaultInput ==
    [start |-> <<"A", "9">>, count |-> 1, mode |-> "exact_mm",
     font_size_mm |-> Mm(5), per_letter |-> NoList,
     anchor_space |-> "object_mm",
     series_x_mm |-> Num(Mm(2)), series_y_mm |-> Num(Mm(2)),
     w |-> Num(Mm(50)), h |-> Num(Mm(50)),
     x_mm |-> None, x |-> None, y_mm |-> None, y |-> None,
     alignment |-> "", cut_margin_mm |-> None,
     custom_fonts |-> "ok", background |-> "pdf", overlays |-> <<>>]

\* Series and validity vary, the layout is the default one.
WriteInputs ==
    {[DefaultInput EXCEPT !.start = s, !.count = c, !.mode = m,
                          !.font_size_mm = f, !.w = w, !.h = h,
                          !.anchor_space = a] :
        s \in Starts, c \in 0..MaxCount, m \in Modes, f \in {0, Mm(5)},
        w \in {Num(0), Num(Mm(50))}, h \in {Num(Mm(50)), Num(Mm(100))},
        a \in {"object_mm", "page_mm"}}

\* The layout varies: the object box, its offsets and alignment and the
\* cut margin, among them a margin wider than a quarter of the page and
\* one wider than the page.
CutMargins ==
    {None, Unparsable, Num(Mm(0 - 5)), Num(0), Num(Mm(3)), Num(Mm(100)), Num(Mm(300))}
Alignments == {"", "left", "center", "right", " Right "}
\* exact_mm, and two of the modes that are not exact_mm.
LayoutModes == {"exact_mm", "legacy", "draft"}
LayoutInputs ==
    {[DefaultInput EXCEPT !.count = c, !.mode = m, !.w = w, !.h = h,
                          !.x_mm = xm, !.x = x, !.y_mm = ym,
                          !.alignment = al, !.cut_margin_mm = cm] :
        c \in {1, MaxCount}, m \in LayoutModes,
        w \in {None, Num(0), Num(Mm(50)), Num(Mm(250))},
        h \in {Num(Mm(50)), Num(Mm(100))},
        xm \in {None, Num(0), Num(Mm(10)), Num(Mm(0 - 10))},
        x \in {None, Num(0)}, ym \in {None, Num(Mm(5))},
        al \in Alignments, cm \in CutMargins}

\* The per-letter sizes vary: every list of up to MaxStartLen entries, each
\* a positive size, zero, a negative size or a value float() rejects.
PerLetterEntries == {Num(Mm(3)), Num(Mm(4)), Num(0), Num(Mm(0 - 1)), Unparsable}
PerLetterLists ==
    {NoList, NotAList}
    \cup {ListOfSizes(l) : l \in UNION {[1..n -> PerLetterEntries] : n \in 0..MaxStartLen}}
GlyphInputs ==
    {[DefaultInput EXCEPT !.start = s, !.count = c, !.per_letter = pl] :
        s \in {<<"9">>, <<"A", "9">>, <<"A", "0", "7">>}, c \in {1, MaxCount},
        pl \in PerLetterLists}

\* The series placement and the overlays vary: every list of up to
\* MaxOverlays overlays, the i-th named "o<i>".
AnchorSpaces == {"object_mm", " OBJECT_MM ", "Object_mm", "page_mm", "", " "}
OverlayIds == <<"o1", "o2", "o3">>
DrawnOverlayLists ==
    UNION {{[i \in 1..n |-> [id |-> OverlayIds[i], kind |-> kinds[i]]] :
                kinds \in [1..n -> OverlayKinds]} : n \in 0..MaxOverlays}
CanvasInputs ==
    {[DefaultInput EXCEPT !.count = c, !.mode = m, !.anchor_space = a,
                          !.series_x_mm = sx, !.series_y_mm = sy,
                          !.overlays = ov] :
        c \in {1, MaxCount}, m \in Modes, a \in AnchorSpaces,
        sx \in {None, Num(Mm(2))}, sy \in {None, Num(Mm(2))},
        ov \in DrawnOverlayLists}

NoParse == [prefix |-> <<>>, base |-> 0, width |-> 0]
NoRect == [x |-> 0, y |-> 0, w |-> 0, h |-> 0]
NoResult == [status |-> "", pages |-> 0]

IdleInput == [DefaultInput EXCEPT !.start = <<"0">>, !.count = 0, !.mode = "legacy"]

StartPdf(inputs) ==
    /\ wcfg \in inputs
    /\ wpc = "start"
    /\ werr = ""
    /\ parsed = NoParse
    /\ total_pages = 0
    /\ page = 0
    /\ slot_index = 0
    /\ serial_index = 0
    /\ visited = <<>>
    /\ ops = <<>>
    /\ pages_out = 0
    /\ saved = FALSE
    /\ s3_pdf = FALSE
    /\ result = NoResult

InitPdf == StartPdf(WriteInputs)
IdlePdf == StartPdf({IdleInput})
InitLayout == StartPdf(LayoutInputs)
InitGlyph == StartPdf(GlyphInputs)
InitCanvas == StartPdf(CanvasInputs)

Raise(e) ==
    /\ wpc' = "error"
    /\ werr' = e

\* Lines 273-388: the checks before the loop, in the order of the code.
BeginError(cfg) ==
    IF cfg.count <= 0 THEN "series.count must be > 0"
    ELSE IF cfg.custom_fonts = "bad" THEN "CUSTOM_FONT_REGISTER_FAILED"
    ELSE IF cfg.font_size_mm <= 0 THEN "series.font_size_mm must be > 0"
    ELSE IF cfg.per_letter.kind = "scalar"
    THEN "series.per_letter_font_size_mm must be a list of numbers"
    ELSE IF ~ParseOk(cfg.start) THEN "Series must end with a numeric part"
    ELSE IF cfg.background = "missing" THEN "INVALID_BACKGROUND_PDF"
    ELSE ""

WfBegin ==
    /\ wpc = "start"
    /\ IF BeginError(wcfg) # "" THEN
            Raise(BeginError(wcfg))
            /\ UNCHANGED <<parsed, total_pages>>
       ELSE /\ parsed' = _parse_series_start(wcfg.start)
            /\ total_pages' = TotalPages(wcfg.count)
            /\ wpc' = IF TotalPages(wcfg.count) > 0 THEN "slot" ELSE "save"
            /\ werr' = ""
    /\ UNCHANGED <<wcfg, page, slot_index, serial_index, visited, ops,
                   pages_out, saved, s3_pdf, result>>
    /\ UNCHANGED not_pdf

\* Lines 411-474: what stops a filled slot before anything is drawn.
SlotError(cfg, slot) ==
    IF ObjectSizeError(cfg) # "" THEN ObjectSizeError(cfg)
    ELSE IF cfg.mode # "exact_mm"
            /\ (mm_to_pt(cfg.w.val) > slot.w \/ mm_to_pt(cfg.h.val) > slot.h)
    THEN "Object size exceeds slot size"
    ELSE IF cfg.background = "flat" THEN "SVG-PDF MediaBox must be > 0"
    ELSE ""

\* Lines 391-599: one iteration of the inner loop.
WfSlot ==
    /\ wpc = "slot"
    /\ slot_index < OBJECTS_PER_PAGE
    /\ LET n == page * OBJECTS_PER_PAGE + slot_index
           slot == SlotRect(wcfg.mode, CutMarginMm(wcfg.cut_margin_mm), slot_index)
       IN  IF serial_index >= wcfg.count THEN
                \* continue: the slot stays blank
                /\ visited' = Append(visited,
                        [page |-> page, slot |-> slot_index, filled |-> FALSE,
                         serial |-> <<>>, sizes |-> <<>>,
                         slot_rect |-> slot, object_rect |-> NoRect])
                /\ slot_index' = slot_index + 1
                /\ UNCHANGED <<wpc, werr, serial_index, ops>>
           ELSE IF SlotError(wcfg, slot) # "" THEN
                Raise(SlotError(wcfg, slot))
                /\ UNCHANGED <<visited, slot_index, serial_index, ops>>
           ELSE IF OverlaysRaise(wcfg.overlays) THEN
                Raise("INVALID_OVERLAY_SVG")
                /\ ops' = ops \o BackgroundOps(wcfg, n) \o OverlaysOps(wcfg.overlays, n)
                /\ UNCHANGED <<visited, slot_index, serial_index>>
           ELSE IF AnchorError(wcfg) # "" THEN
                Raise(AnchorError(wcfg))
                /\ ops' = ops \o BackgroundOps(wcfg, n) \o OverlaysOps(wcfg.overlays, n)
                /\ UNCHANGED <<visited, slot_index, serial_index>>
           ELSE LET serial == _series_value(parsed.prefix, parsed.base,
                                            parsed.width, serial_index)
                IN  /\ visited' = Append(visited,
                            [page |-> page, slot |-> slot_index, filled |-> TRUE,
                             serial |-> serial,
                             sizes |-> GlyphSizes(wcfg, serial),
                             slot_rect |-> slot,
                             object_rect |-> ObjectRect(wcfg, slot)])
                    /\ ops' = ops \o SlotOps(wcfg, n)
                    /\ serial_index' = NextSerialIndex(serial_index)
                    /\ slot_index' = slot_index + 1
                    /\ UNCHANGED <<wpc, werr>>
    /\ UNCHANGED <<wcfg, parsed, total_pages, page, pages_out, saved, s3_pdf, result>>
    /\ UNCHANGED not_pdf

\* Line 601: canvas.showPage() after the four slots of a page.
WfShowPage ==
    /\ wpc = "slot"
    /\ slot_index = OBJECTS_PER_PAGE
    /\ pages_out' = pages_out + 1
    /\ page' = page + 1
    /\ slot_index' = 0
    /\ wpc' = IF page + 1 < total_pages THEN "slot" ELSE "save"
    /\ UNCHANGED <<wcfg, werr, parsed, total_pages, serial_index, visited, ops,
                   saved, s3_pdf, result>>
    /\ UNCHANGED not_pdf

\* Lines 603-605: canvas.save() writes the file; total_pages is returned.
WfSave ==
    /\ wpc = "save"
    /\ saved' = TRUE
    /\ wpc' = "upload"
    /\ UNCHANGED <<wcfg, werr, parsed, total_pages, page, slot_index,
                   serial_index, visited, ops, pages_out, s3_pdf, result>>
    /\ UNCHANGED not_pdf

\* render_job, line 58: upload_pdf_to_s3, which may raise.
UploadBeforeSave == wpc \in {"slot", "upload"}
UploadAfterReturn == wpc = "upload"
RjUploadFinal ==
    /\ UploadAfterReturn
    /\ \E ok \in BOOLEAN :
            IF ok THEN /\ s3_pdf' = TRUE
                       /\ wpc' = "return"
                       /\ werr' = ""
            ELSE /\ Raise("upload failed")
                 /\ UNCHANGED s3_pdf
    /\ UNCHANGED <<wcfg, parsed, total_pages, page, slot_index, serial_index,
                   visited, ops, pages_out, saved, result>>
    /\ UNCHANGED not_pdf

\* render_job, lines 60-66: the result.
RjDone ==
    /\ wpc = "return"
    /\ result' = [status |-> "DONE", pages |-> total_pages]
    /\ wpc' = "done"
    /\ UNCHANGED <<wcfg, werr, parsed, total_pages, page, slot_index,
                   serial_index, visited, ops, pages_out, saved, s3_pdf>>
    /\ UNCHANGED not_pdf

NextPdf == WfBegin \/ WfSlot \/ WfShowPage \/ WfSave \/ RjUploadFinal \/ RjDone


(***************************************************************************)
(* compute_template_id (template.py).  A dict is a sequence of <<key,       *)
(* value>> pairs with distinct keys, in insertion order; an optional list   *)
(* is a record [isNone, items].  json.dumps(payload, sort_keys=True,        *)
(* separators=(",", ":")) is the sequence of its tokens.                    *)
(***************************************************************************)
MaxVaried == 2

\* All dict keys of the model, in the order Python sorts them.
KeyOrder == <<"count", "family", "h", "mime", "start", "w", "x_mm">>

DictKeys(d) == {d[i][1] : i \in DOMAIN d}
DictGet(d, k) == d[CHOOSE i \in DOMAIN d : d[i][1] = k][2]

\* sort_keys=True: the keys of d in sorted order.
InsertionKeys(d) == [i \in DOMAIN d |-> d[i][1]]
SortedKeys(d) == SelectSeq(KeyOrder, LAMBDA k : k \in DictKeys(d))

RECURSIVE JoinComma(_)
JoinComma(parts) ==
    IF Len(parts) = 0 THEN <<>>
    ELSE IF Len(parts) = 1 THEN parts[1]
    ELSE parts[1] \o <<",">> \o JoinComma(Tail(parts))

DumpDict(d) ==
    LET ks == SortedKeys(d)
    IN  <<"{">> \o JoinComma([j \in 1..Len(ks) |-> <<ks[j], ":", DictGet(d, ks[j])>>])
               \o <<"}">>

DumpList(l) ==
    <<"[">> \o JoinComma([j \in 1..Len(l) |-> DumpDict(l[j])]) \o <<"]">>

\* custom_fonts or [], overlays or []
OrEmpty(l) == IF l.isNone \/ l.items = <<>> THEN <<>> ELSE l.items

\* The payload dict of compute_template_id, dumped with its own keys sorted:
\* custom_fonts, object_mm, overlays, render_mode, series, svg_hash.
DumpPayload(p) ==
    <<"{", "custom_fonts", ":">> \o DumpList(OrEmpty(p.custom_fonts))
        \o <<",", "object_mm", ":">> \o DumpDict(p.object_mm)
        \o <<",", "overlays", ":">> \o DumpList(OrEmpty(p.overlays))
        \o <<",", "render_mode", ":", p.render_mode>>
        \o <<",", "series", ":">> \o DumpDict(p.series)
        \o <<",", "svg_hash", ":">> \o p.svg_hash \o <<"}">>

\* sha256_hex(raw): a digest, taken to be collision-free.
sha256_hex(raw) == <<"sha256">> \o raw

compute_template_id(p) == sha256_hex(DumpPayload(p))

NoId == <<>>
NoneList == [isNone |-> TRUE, items |-> <<>>]
ListOf(items) == [isNone |-> FALSE, items |-> items]

ObjDicts ==
    { << <<"w", "1">>, <<"h", "1">> >>,
      << <<"h", "1">>, <<"w", "1">> >>,
      << <<"w", "2">>, <<"h", "1">> >>,
      << <<"w", "1">> >> }
SeriesDicts ==
    { << <<"start", "A1">>, <<"count", "1">> >>,
      << <<"count", "1">>, <<"start", "A1">> >>,
      << <<"start", "A1">>, <<"count", "2">> >> }
FontDict == << <<"family", "F">>, <<"mime", "font/ttf">> >>
FontDictReordered == << <<"mime", "font/ttf">>, <<"family", "F">> >>
FontLists == {NoneList, ListOf(<<>>), ListOf(<<FontDict>>), ListOf(<<FontDictReordered>>)}
Overlay1 == << <<"x_mm", "1">>, <<"w", "1">> >>
Overlay1Reordered == << <<"w", "1">>, <<"x_mm", "1">> >>
Overlay2 == << <<"x_mm", "2">>, <<"w", "1">> >>
OverlayLists ==
    {NoneList, ListOf(<<>>), ListOf(<<Overlay1, Overlay2>>),
     ListOf(<<Overlay1Reordered, Overlay2>>), ListOf(<<Overlay2, Overlay1>>)}
SvgDocs == {"svgA", "svgB"}
SvgHashes == {sha256_hex(<<d>>) : d \in SvgDocs}
HashedModes == {"exact_mm", "legacy"}

PayloadFields == {"svg_hash", "object_mm", "series", "custom_fonts", "overlays", "render_mode"}
FieldValues(f) ==
    CASE f = "svg_hash" -> SvgHashes
      [] f = "object_mm" -> ObjDicts
      [] f = "series" -> SeriesDicts
      [] f = "custom_fonts" -> FontLists
      [] f = "overlays" -> OverlayLists
      [] f = "render_mode" -> HashedModes

Payloads ==
    [svg_hash : SvgHashes, object_mm : ObjDicts, series : SeriesDicts,
     custom_fonts : FontLists, overlays : OverlayLists, render_mode : HashedModes]

StartHash(payloads) ==
    /\ payA \in payloads
    /\ payB = payA
    /\ idA = NoId
    /\ idB = NoId

InitHash == StartHash(Payloads)
IdleHash == StartHash({CHOOSE q \in Payloads : TRUE})

\* The arguments in which the second call differs from the first.
Varied == {f \in PayloadFields : payA[f] # payB[f]}

\* The caller of the second call passes another value for one argument.
VaryArgument(f, v) ==
    /\ idA = NoId /\ idB = NoId
    /\ Cardinality(Varied \cup {f}) <= MaxVaried
    /\ v # payB[f]
    /\ payB' = [payB EXCEPT ![f] = v]
    /\ UNCHANGED <<payA, idA, idB>>
    /\ UNCHANGED not_hash

CallComputeA ==
    /\ idA = NoId
    /\ idA' = compute_template_id(payA)
    /\ UNCHANGED <<payA, payB, idB>>
    /\ UNCHANGED not_hash

CallComputeB ==
    /\ idA # NoId /\ idB = NoId
    /\ idB' = compute_template_id(payB)
    /\ UNCHANGED <<payA, payB, idA>>
    /\ UNCHANGED not_hash

NextHash ==
    \/ \E f \in PayloadFields : \E v \in FieldValues(f) : VaryArgument(f, v)
    \/ CallComputeA
    \/ CallComputeB

(***************************************************************************)
(* The template cache (template.py), the cached background conversion      *)
(* (normalize.py) and render_job (render.py).  Callers are the threads     *)
(* that serve requests; every file operation is one step.                  *)
(***************************************************************************)
NumCallers == 2
MaxCalls == 3

Callers == 1..NumCallers

\* cached_pdf_path = out_dir / f"{svg_hash}_{SVG_TO_PDF_VERSION}.pdf"
PdfPath(h) == h \o <<"_orig_v1", ".pdf">>

\* The SVG documents of render requests: cairosvg converts "svgA" and fails
\* on "svgBad".
RenderDocs == {"svgA", "svgBad"}
PdfPaths == {PdfPath(sha256_hex(<<d>>)) : d \in RenderDocs}
\* cairosvg.svg2pdf (normalize.py, line 87) is deterministic given the bytes:
\* it writes a PDF, or raises, or leaves something that is not a PDF.
ConvertOutcomes(svg) == IF svg = "svgBad" THEN {"raise", "garbage"} ELSE {"pdf"}

\* A file of the background cache: "absent", "empty" (created or truncated,
\* nothing written yet), "partial" (begins with %PDF-, not finished), "pdf"
\* (a finished PDF), "garbage" (finished, not a PDF).
HeadNeverPdf(st) == FALSE
HeadIsPdf(st) == st \in {"pdf", "partial"}

\* render_job, lines 19-26: raw_mode = str(render_mode or '').strip(); the
\* raw value "" stands for None as well.
RawModes == {"", "preview", "legacy"}
\* str.strip() of the mode flags that occur.
StripMode(raw) == IF raw = " preview " THEN "preview"
                  ELSE IF raw = " " THEN ""
                  ELSE raw
RenderMode(raw) ==
    LET raw_mode == StripMode(raw)
    IN  IF raw_mode \in {"preview", "print_authoritative"} THEN "exact_mm"
        ELSE IF raw_mode \in {"deterministic_outlined", "deterministic_outlined_4up"}
             THEN "exact_mm"
        ELSE IF raw_mode = "" THEN "exact_mm"
        ELSE raw_mode

\* write_final_pdf, lines 273 and 366:
\* mode = str(getattr(template, "render_mode", "") or "").strip() or "legacy"
WriteMode(render_mode) ==
    IF StripMode(render_mode) = "" THEN "legacy" ELSE StripMode(render_mode)

\* Every mode flag a request may carry: the visible modes, legacy, an
\* unknown one, a padded one and none.
AllRawModes ==
    {"preview", "print_authoritative", "deterministic_outlined",
     "deterministic_outlined_4up", "exact_mm", "legacy", "draft", " preview ", ""}

\* The render-affecting configuration of a request.
CfgA == [object_mm |-> << <<"w", "1">>, <<"h", "1">> >>,
         series |-> << <<"start", "A1">>, <<"count", "1">> >>,
         custom_fonts |-> NoneList, overlays |-> NoneList]
CfgB == [object_mm |-> << <<"w", "2">>, <<"h", "1">> >>,
         series |-> << <<"start", "A1">>, <<"count", "1">> >>,
         custom_fonts |-> ListOf(<<FontDict>>), overlays |-> ListOf(<<Overlay1>>)]
CfgBad == [object_mm |-> << <<"w", "1">>, <<"h", "1">> >>,
           series |-> << <<"start", "A1">>, <<"count", "0">> >>,
           custom_fonts |-> NoneList, overlays |-> NoneList]
RenderCfgs == {CfgA, CfgB, CfgBad}

Requests == [svg : RenderDocs, cfg : RenderCfgs, raw_mode : RawModes]

\* The keyword arguments render_job passes on (lines 32-48).
RenderArgs(r) ==
    LET h == sha256_hex(<<r.svg>>)
        payload == [svg_hash |-> h, object_mm |-> r.cfg.object_mm,
                    series |-> r.cfg.series, custom_fonts |-> r.cfg.custom_fonts,
                    overlays |-> r.cfg.overlays, render_mode |-> RenderMode(r.raw_mode)]
    IN  [template_id |-> compute_template_id(payload),
         background_pdf_path |-> PdfPath(h),
         object_mm |-> r.cfg.object_mm, series |-> r.cfg.series,
         custom_fonts |-> r.cfg.custom_fonts, overlays |-> r.cfg.overlays,
         render_mode |-> RenderMode(r.raw_mode)]

TemplateIds == {RenderArgs(r).template_id : r \in Requests}

\* What a caller of load_or_create_template itself may pass.
LocIds == {RenderArgs([svg |-> "svgA", cfg |-> c, raw_mode |-> ""]).template_id :
              c \in {CfgA, CfgB}}
LocModes == {"exact_mm", "legacy", ""}
\* custom_fonts and overlays: both None, both empty, or both given.
LocLists == {<<NoneList, NoneList>>, <<ListOf(<<>>), ListOf(<<>>)>>,
             <<ListOf(<<FontDict>>), ListOf(<<Overlay1>>)>>}
LocArgs ==
    {[template_id |-> t, background_pdf_path |-> PdfPath(sha256_hex(<<"svgA">>)),
      object_mm |-> CfgA.object_mm, series |-> CfgA.series,
      custom_fonts |-> l[1], overlays |-> l[2], render_mode |-> m] :
        t \in LocIds, l \in LocLists, m \in LocModes}

NoCall == [kind |-> "none", job |-> 0, svg |-> "svgA", cfg |-> CfgA, raw_mode |-> ""]
NoArgs == [template_id |-> NoId, background_pdf_path |-> <<>>, object_mm |-> <<>>,
           series |-> <<>>, custom_fonts |-> NoneList, overlays |-> NoneList,
           render_mode |-> ""]
NoTemplate == [template_id |-> NoId, background_pdf_path |-> <<>>,
               object_box_mm |-> <<>>, series_config |-> <<>>,
               custom_fonts |-> <<>>, overlays |-> <<>>, render_mode |-> ""]

AbsentFile == [state |-> "absent"]
EmptyFile == [state |-> "empty"]
FullFile(meta) == [state |-> "full", meta |-> meta]

\* json.loads of what json.dumps(..., sort_keys=True) wrote: every dict comes
\* back with its keys in sorted order.
SortDict(d) ==
    LET ks == SortedKeys(d) IN [j \in 1..Len(ks) |-> <<ks[j], DictGet(d, ks[j])>>]
SortDicts(l) == [j \in 1..Len(l) |-> SortDict(l[j])]

\* Lines 75-84: the record written on a miss, as a reader gets it back.
StoredMeta(a) ==
    [template_id |-> a.template_id,
     background_pdf_path |-> a.background_pdf_path,
     object_box_mm |-> SortDict(a.object_mm),
     series_config |-> SortDict(a.series),
     custom_fonts |-> SortDicts(OrEmpty(a.custom_fonts)),
     overlays |-> SortDicts(OrEmpty(a.overlays)),
     render_mode |-> a.render_mode]

\* Lines 65-73: the Template built from the record on a hit.
TemplateFromMeta(m) ==
    [template_id |-> m.template_id,
     background_pdf_path |-> m.background_pdf_path,
     object_box_mm |-> m.object_box_mm,
     series_config |-> m.series_config,
     custom_fonts |-> m.custom_fonts,
     overlays |-> m.overlays,
     render_mode |-> IF m.render_mode = "" THEN "legacy" ELSE m.render_mode]

\* Lines 86-94: the Template built from the arguments on a miss.
TemplateFromArgs(a) ==
    [template_id |-> a.template_id,
     background_pdf_path |-> a.background_pdf_path,
     object_box_mm |-> a.object_mm,
     series_config |-> a.series,
     custom_fonts |-> OrEmpty(a.custom_fonts),
     overlays |-> OrEmpty(a.overlays),
     render_mode |-> a.render_mode]

\* write_final_pdf, line 276-278: count = int(series_cfg.get("count"))
CountPositive(t) == DictGet(t.series_config, "count") # "0"

\* The files of tmp/templates by template id, and the writes counted per id.
Put(f, k, v) == [x \in DOMAIN f \cup {k} |-> IF x = k THEN v ELSE f[x]]
FileOf(t) == IF t \in DOMAIN tstore THEN tstore[t] ELSE AbsentFile
WritesOf(t) == IF t \in DOMAIN twrites THEN twrites[t] ELSE 0

\* The state before any call, given what the background cache may hold.
StartCache(files) ==
    /\ pc = [p \in Callers |-> "idle"]
    /\ call = [p \in Callers |-> NoCall]
    /\ largs = [p \in Callers |-> NoArgs]
    /\ tmpl = [p \in Callers |-> NoTemplate]
    /\ tstore = [t \in {} |-> AbsentFile]
    /\ pdfs \in files
    /\ ncalls = 0
    /\ conv_count = [f \in PdfPaths |-> 0]
    /\ conv_done = [f \in PdfPaths |-> 0]
    /\ twrites = [t \in {} |-> 0]
    /\ loclog = {}
    /\ joblog = {}
    /\ outputs = {}
    /\ uploaded = {}

\* Empty cache directories.
IdleCache == StartCache({[f \in PdfPaths |-> "absent"]})
\* A process that died in a conversion may have left an unfinished file.
InitCache == StartCache([PdfPaths -> {"absent", "empty"}])

Quiescent == \A q \in Callers : pc[q] = "idle"

Goto(p, where) == pc' = [pc EXCEPT ![p] = where]

\* The caller is done with its call.
Forget(p) ==
    /\ pc' = [pc EXCEPT ![p] = "idle"]
    /\ call' = [call EXCEPT ![p] = NoCall]
    /\ largs' = [largs EXCEPT ![p] = NoArgs]
    /\ tmpl' = [tmpl EXCEPT ![p] = NoTemplate]

JobEntry(p, status) ==
    [svg |-> call[p].svg, cfg |-> call[p].cfg, raw_mode |-> call[p].raw_mode,
     tid |-> largs[p].template_id, status |-> status]

\* render_job raises, or returns its result.
JobEnds(p, status) ==
    /\ joblog' = joblog \cup {JobEntry(p, status)}
    /\ Forget(p)

(***************************************************************************)
(* load_or_create_template (template.py, lines 48-94).                     *)
(***************************************************************************)
\* A caller calls load_or_create_template itself.
LocCall(p, a) ==
    /\ pc[p] = "idle"
    /\ ncalls < MaxCalls
    /\ ncalls' = ncalls + 1
    /\ call' = [call EXCEPT ![p] = [NoCall EXCEPT !.kind = "loc"]]
    /\ largs' = [largs EXCEPT ![p] = a]
    /\ Goto(p, "loc_check")
    /\ UNCHANGED <<tmpl, tstore, pdfs, conv_count, conv_done, twrites,
                   loclog, joblog, outputs, uploaded>>
    /\ UNCHANGED not_cache

\* The same, when no other call is in progress.
LocCallSeq(p, a) == Quiescent /\ LocCall(p, a)

\* load_or_create_template returns t (path "hit" or "miss") or raises
\* (path "failed"): to render_job, or to the caller that called it itself.
LocReturn(p, path, t) ==
    /\ loclog' = loclog \cup {[args |-> largs[p], path |-> path, ret |-> t]}
    /\ IF call[p].kind = "render" /\ path # "failed" THEN
            /\ tmpl' = [tmpl EXCEPT ![p] = t]
            /\ Goto(p, "rj_final")
            /\ UNCHANGED <<call, largs, joblog>>
       ELSE IF call[p].kind = "render" THEN
            JobEnds(p, "error")
       ELSE /\ Forget(p)
            /\ UNCHANGED joblog

\* Line 63: if meta_path.exists()
LocCheck(p) ==
    /\ pc[p] = "loc_check"
    /\ Goto(p, IF FileOf(largs[p].template_id).state # "absent"
               THEN "loc_read" ELSE "loc_open")
    /\ UNCHANGED <<call, largs, tmpl, tstore, pdfs, ncalls, conv_count,
                   conv_done, twrites, loclog, joblog, outputs, uploaded>>
    /\ UNCHANGED not_cache

\* Lines 64-73: json.loads(meta_path.read_text()) and the Template of the
\* record; json.loads raises on a file that holds nothing yet.
LocRead(p) ==
    /\ pc[p] = "loc_read"
    /\ LET f == FileOf(largs[p].template_id)
       IN  IF f.state = "full"
           THEN LocReturn(p, "hit", TemplateFromMeta(f.meta))
           ELSE LocReturn(p, "failed", NoTemplate)
    /\ UNCHANGED <<tstore, pdfs, ncalls, conv_count, conv_done, twrites,
                   outputs, uploaded>>
    /\ UNCHANGED not_cache

\* Line 84, write_text: open(meta_path, "w") creates or truncates the file.
LocOpen(p) ==
    /\ pc[p] = "loc_open"
    /\ tstore' = Put(tstore, largs[p].template_id, EmptyFile)
    /\ Goto(p, "loc_write")
    /\ UNCHANGED <<call, largs, tmpl, pdfs, ncalls, conv_count,
                   conv_done, twrites, loclog, joblog, outputs, uploaded>>
    /\ UNCHANGED not_cache

\* Line 84, write_text: the text is written and the file closed; lines 86-94.
LocWrite(p) ==
    /\ pc[p] = "loc_write"
    /\ tstore' = Put(tstore, largs[p].template_id, FullFile(StoredMeta(largs[p])))
    /\ twrites' = Put(twrites, largs[p].template_id, WritesOf(largs[p].template_id) + 1)
    /\ LocReturn(p, "miss", TemplateFromArgs(largs[p]))
    /\ UNCHANGED <<pdfs, ncalls, conv_count, conv_done, outputs, uploaded>>
    /\ UNCHANGED not_cache

LocSteps(p) == LocCheck(p) \/ LocRead(p) \/ LocOpen(p) \/ LocWrite(p)

NextTemplate ==
    \E p \in Callers : (\E a \in LocArgs : LocCall(p, a)) \/ LocSteps(p)

NextTemplateSeq ==
    \E p \in Callers : (\E a \in LocArgs : LocCallSeq(p, a)) \/ LocSteps(p)

(***************************************************************************)
(* render_job (render.py, lines 8-66), one request after the other, with   *)
(* svg_to_pdf_cached_original_size (normalize.py, lines 56-102).           *)
(***************************************************************************)
\* A request arrives while no other is served; lines 19-26 keep its mode.
RjCallSeq(p, r) ==
    /\ Quiescent
    /\ pc[p] = "idle"
    /\ ncalls < MaxCalls
    /\ ncalls' = ncalls + 1
    /\ call' = [call EXCEPT ![p] = [kind |-> "render", job |-> ncalls + 1,
                                    svg |-> r.svg, cfg |-> r.cfg,
                                    raw_mode |-> r.raw_mode]]
    /\ Goto(p, "svg_cached")
    /\ UNCHANGED <<largs, tmpl, tstore, pdfs, conv_count, conv_done, twrites,
                   loclog, joblog, outputs, uploaded>>
    /\ UNCHANGED not_cache

BackgroundPath(p) == PdfPath(sha256_hex(<<call[p].svg>>))

\* normalize.py, lines 66-84: a cached file that begins with %PDF- is
\* returned; any other existing file is unlinked before the conversion.
SvgCached(p) ==
    /\ pc[p] = "svg_cached"
    /\ LET f == BackgroundPath(p)
       IN  IF pdfs[f] # "absent" /\ HeadIsPdf(pdfs[f])
           THEN /\ Goto(p, "rj_template")
                /\ UNCHANGED pdfs
           ELSE /\ Goto(p, "svg_convert")
                /\ pdfs' = [pdfs EXCEPT ![f] = "absent"]
    /\ UNCHANGED <<call, largs, tmpl, tstore, ncalls, conv_count, conv_done,
                   twrites, loclog, joblog, outputs, uploaded>>
    /\ UNCHANGED not_cache

\* normalize.py, lines 87-102: the conversion is invoked; its output is kept
\* when it begins with %PDF-, else unlinked and RuntimeError raised.
SvgConvert(p) ==
    /\ pc[p] = "svg_convert"
    /\ LET f == BackgroundPath(p)
       IN  /\ conv_count' = [conv_count EXCEPT ![f] = @ + 1]
           /\ \E out \in ConvertOutcomes(call[p].svg) :
                IF out = "pdf"
                THEN /\ pdfs' = [pdfs EXCEPT ![f] = "pdf"]
                     /\ conv_done' = [conv_done EXCEPT ![f] = @ + 1]
                     /\ Goto(p, "rj_template")
                     /\ UNCHANGED <<call, largs, tmpl, joblog>>
                ELSE /\ pdfs' = [pdfs EXCEPT ![f] = "absent"]
                     /\ UNCHANGED conv_done
                     /\ JobEnds(p, "error")
    /\ UNCHANGED <<tstore, ncalls, twrites, loclog, outputs, uploaded>>
    /\ UNCHANGED not_cache

\* render.py, lines 32-48: the template id, and the call of
\* load_or_create_template.
RjTemplate(p) ==
    /\ pc[p] = "rj_template"
    /\ largs' = [largs EXCEPT ![p] =
                    RenderArgs([svg |-> call[p].svg, cfg |-> call[p].cfg,
                                raw_mode |-> call[p].raw_mode])]
    /\ Goto(p, "loc_check")
    /\ UNCHANGED <<call, tmpl, tstore, pdfs, ncalls, conv_count, conv_done,
                   twrites, loclog, joblog, outputs, uploaded>>
    /\ UNCHANGED not_cache

\* render.py, line 55: write_final_pdf writes final_{job_id}.pdf, or raises
\* (count <= 0, pdf_writer.py lines 276-278; background, lines 334-342).
RjFinal(p) ==
    /\ pc[p] = "rj_final"
    /\ IF CountPositive(tmpl[p]) /\ pdfs[tmpl[p].background_pdf_path] = "pdf"
       THEN /\ outputs' = outputs \cup {call[p].job}
            /\ Goto(p, "rj_upload")
            /\ UNCHANGED <<call, largs, tmpl, joblog>>
       ELSE /\ UNCHANGED outputs
            /\ JobEnds(p, "error")
    /\ UNCHANGED <<tstore, pdfs, ncalls, conv_count, conv_done, twrites,
                   loclog, uploaded>>
    /\ UNCHANGED not_cache

\* render.py, lines 57-66: the upload and the result.
RjUpload(p) ==
    /\ pc[p] = "rj_upload"
    /\ uploaded' = uploaded \cup {call[p].job}
    /\ JobEnds(p, "DONE")
    /\ UNCHANGED <<tstore, pdfs, ncalls, conv_count, conv_done, twrites,
                   loclog, outputs>>
    /\ UNCHANGED not_cache

\* Requests for one template that differ in the mode flag only.
ModeRequests == [svg : {"svgA"}, cfg : {CfgA}, raw_mode : AllRawModes]

RenderSteps(p) ==
    \/ SvgCached(p)
    \/ SvgConvert(p)
    \/ RjTemplate(p)
    \/ LocSteps(p)
    \/ RjFinal(p)
    \/ RjUpload(p)

NextRenderModes ==
    \E p \in Callers :
        \/ \E r \in ModeRequests : RjCallSeq(p, r)
        \/ RenderSteps(p)

NextRenderSeq ==
    \E p \in Callers :
        \/ \E r \in Requests : RjCallSeq(p, r)
        \/ SvgCached(p)
        \/ SvgConvert(p)
        \/ RjTemplate(p)
        \/ LocSteps(p)
        \/ RjFinal(p)
        \/ RjUpload(p)

(***************************************************************************)
(* The font registry (font_registry.py): get_font_registry under           *)
(* functools.lru_cache, called by the threads that serve /fonts and the    *)
(* renders, and resolve_font_family.                                       *)
(***************************************************************************)
_PDF_CORE_FONTS ==
    <<"Courier", "Courier-Bold", "Courier-Oblique", "Courier-BoldOblique",
      "Helvetica", "Helvetica-Bold", "Helvetica-Oblique", "Helvetica-BoldOblique",
      "Times-Roman", "Times-Bold", "Times-Italic", "Times-BoldItalic",
      "Symbol", "ZapfDingbats">>
CoreSet == {_PDF_CORE_FONTS[i] : i \in DOMAIN _PDF_CORE_FONTS}

\* str.lower() of the names that occur, in the order sort() puts them.
LowerPairs ==
    << <<"Arial", "arial">>, <<"ARIAL", "arial">>,
       <<"Courier", "courier">>, <<"Courier-Bold", "courier-bold">>,
       <<"Courier-BoldOblique", "courier-boldoblique">>,
       <<"Courier-Oblique", "courier-oblique">>,
       <<"Custom", "custom">>,
       <<"Helvetica", "helvetica">>, <<"Helvetica-Bold", "helvetica-bold">>,
       <<"Helvetica-BoldOblique", "helvetica-boldoblique">>,
       <<"Helvetica-Oblique", "helvetica-oblique">>,
       <<"Locked", "locked">>, <<"NoSuch", "nosuch">>,
       <<"Symbol", "symbol">>,
       <<"Times-Bold", "times-bold">>, <<"Times-BoldItalic", "times-bolditalic">>,
       <<"Times-Italic", "times-italic">>, <<"Times-Roman", "times-roman">>,
       <<"ZapfDingbats", "zapfdingbats">> >>
Lower(s) ==
    IF \E i \in DOMAIN LowerPairs : LowerPairs[i][1] = s
    THEN LowerPairs[CHOOSE i \in DOMAIN LowerPairs : LowerPairs[i][1] = s][2]
    ELSE s
\* The place of a lower-cased name in the order of Python's string comparison.
Rank(s) ==
    LET hits == {i \in DOMAIN LowerPairs : LowerPairs[i][2] = Lower(s)}
    IN  IF hits = {} THEN 0 ELSE CHOOSE i \in hits : \A j \in hits : i <= j

\* str.strip()
Strip(s) == IF s = " " THEN "" ELSE IF s = " Arial " THEN "Arial" ELSE s

\* The .ttf and .otf files of the system font directories in the order
\* _iter_font_files lists them; family is what _font_family_from_file reads
\* ("" for None), embeddable what _font_embeddable reads.
FontFiles ==
    << [path |-> "/fonts/arial.ttf", family |-> "Arial", embeddable |-> TRUE],
       [path |-> "/fonts/arial2.ttf", family |-> "ARIAL", embeddable |-> FALSE],
       [path |-> "/fonts/locked.ttf", family |-> "Locked", embeddable |-> FALSE],
       [path |-> "/fonts/broken.ttf", family |-> "", embeddable |-> TRUE],
       [path |-> "/fonts/helv.otf", family |-> "helvetica", embeddable |-> TRUE] >>

CoreEntry(name) ==
    [family |-> name, source |-> "pdf-core", path |-> "", embeddable |-> FALSE]
SystemEntry(f) ==
    [family |-> f.family, source |-> "system", path |-> f.path,
     embeddable |-> f.embeddable]

\* Lines 122-137: the entries in the order they are appended, a name whose
\* lower-cased form was seen before skipped.
RECURSIVE AppendUnseen(_, _, _)
AppendUnseen(out, seen, rest) ==
    IF rest = <<>> THEN out
    ELSE LET e == Head(rest)
             key == Lower(e.family)
         IN  IF e.family = "" \/ key \in seen
             THEN AppendUnseen(out, seen, Tail(rest))
             ELSE AppendUnseen(Append(out, e), seen \cup {key}, Tail(rest))

\* Line 139: out.sort(key=lambda x: str(x.get("family") or "").lower())
SortByFamily(out) ==
    LET es == {out[i] : i \in DOMAIN out}
    IN  [i \in 1..Len(out) |->
            CHOOSE e \in es :
                Cardinality({d \in es : Rank(d.family) < Rank(e.family)}) = i - 1]

\* The body of get_font_registry, lines 119-140.
RegistryList ==
    SortByFamily(AppendUnseen(<<>>, {},
        [i \in DOMAIN _PDF_CORE_FONTS |-> CoreEntry(_PDF_CORE_FONTS[i])]
        \o [i \in DOMAIN FontFiles |-> SystemEntry(FontFiles[i])]))

RequestedFamilies ==
    {"", " ", "Helvetica", "helvetica", "Arial", " Arial ", "ARIAL", "Locked",
     "NoSuch", "Custom"}

Fallback(source) ==
    [family |-> "Helvetica", source |-> source, embedded |-> FALSE,
     raised |-> FALSE, registers |-> FALSE, regfail |-> FALSE]

\* Line 165: if not path or not embeddable
UsableAlways(hit) == TRUE
Usable(hit) == hit.path # "" /\ hit.embeddable

\* Lines 171-172: except Exception
OnRegisterError(hit) == [Fallback(hit.source) EXCEPT !.regfail = TRUE]

\* Lines 150-172 for a non-blank requested name; ok says whether
\* pdfmetrics.registerFont succeeds.
Resolve(requested, registry, reg, ok) ==
    IF requested \in reg \/ requested \in CoreSet THEN
        [family |-> requested,
         source |-> IF requested \in CoreSet THEN "pdf-core" ELSE "registered",
         embedded |-> requested \notin CoreSet,
         raised |-> FALSE, registers |-> FALSE, regfail |-> FALSE]
    ELSE
        LET hits == {i \in DOMAIN registry :
                        Lower(registry[i].family) = Lower(requested)}
        IN  IF hits = {} THEN Fallback("pdf-core")
            ELSE LET hit == registry[CHOOSE i \in hits : \A j \in hits : i <= j]
                 IN  IF ~Usable(hit) THEN Fallback(hit.source)
                     ELSE IF ok THEN
                         [family |-> hit.family, source |-> hit.source,
                          embedded |-> TRUE, raised |-> FALSE,
                          registers |-> TRUE, regfail |-> FALSE]
                     ELSE OnRegisterError(hit)

NoFontCall == [kind |-> "none", requested |-> ""]

\* The state before any call; _register_custom_fonts may have registered a
\* font of the template with the renderer.
StartFont(regs) ==
    /\ fpc = [p \in Callers |-> "idle"]
    /\ fcall = [p \in Callers |-> NoFontCall]
    /\ freg = [p \in Callers |-> 0]
    /\ lru = 0
    /\ builds = 0
    /\ registered \in regs
    /\ nfcalls = 0
    /\ fgot = {}
    /\ flog = {}
    /\ fhist = <<>>

IdleFont == StartFont({{}})
InitFont == StartFont({{}, {"Custom"}})

FGoto(p, where) == fpc' = [fpc EXCEPT ![p] = where]

\* What a call returned, after the call before it.
Returned(hist, requested, r) ==
    LET e == [requested |-> requested, family |-> r.family, source |-> r.source,
              embedded |-> r.embedded, regfail |-> r.regfail]
    IN  IF hist = <<>> THEN <<e>> ELSE <<hist[Len(hist)], e>>

FLogEntry(requested, known, r) ==
    [requested |-> requested, known |-> known, family |-> r.family,
     source |-> r.source, embedded |-> r.embedded, raised |-> r.raised,
     regfail |-> r.regfail]

\* main.py, line 40: fonts_endpoint calls get_font_registry.
FontsCall(p) ==
    /\ fpc[p] = "idle"
    /\ nfcalls < MaxCalls
    /\ nfcalls' = nfcalls + 1
    /\ fcall' = [fcall EXCEPT ![p] = [kind |-> "fonts", requested |-> ""]]
    /\ FGoto(p, "gr_lookup")
    /\ UNCHANGED <<freg, lru, builds, registered, fgot, flog, fhist>>
    /\ UNCHANGED not_font

\* Lines 144-148: resolve_font_family returns the fallback for a blank name
\* and calls get_font_registry for any other.
RfCall(p, fam) ==
    /\ fpc[p] = "idle"
    /\ nfcalls < MaxCalls
    /\ nfcalls' = nfcalls + 1
    /\ IF Strip(fam) = ""
       THEN /\ flog' = flog \cup {FLogEntry(fam, FALSE, Fallback("pdf-core"))}
            /\ fhist' = Returned(fhist, fam, Fallback("pdf-core"))
            /\ UNCHANGED <<fpc, fcall>>
       ELSE /\ fcall' = [fcall EXCEPT ![p] = [kind |-> "resolve", requested |-> fam]]
            /\ FGoto(p, "gr_lookup")
            /\ UNCHANGED <<flog, fhist>>
    /\ UNCHANGED <<freg, lru, builds, registered, fgot>>
    /\ UNCHANGED not_font

\* lru_cache: the wrapper looks the call up; on a hit it returns the cached
\* list, on a miss it goes on to call the function, holding no lock.
GrLookup(p) ==
    /\ fpc[p] = "gr_lookup"
    /\ IF lru # 0
       THEN /\ freg' = [freg EXCEPT ![p] = lru]
            /\ FGoto(p, "gr_have")
       ELSE /\ FGoto(p, "gr_build")
            /\ UNCHANGED freg
    /\ UNCHANGED <<fcall, lru, builds, registered, nfcalls, fgot, flog, fhist>>
    /\ UNCHANGED not_font

\* Lines 119-140: the body of get_font_registry runs and makes a new list.
GrBuild(p) ==
    /\ fpc[p] = "gr_build"
    /\ builds' = builds + 1
    /\ freg' = [freg EXCEPT ![p] = builds + 1]
    /\ FGoto(p, "gr_store")
    /\ UNCHANGED <<fcall, lru, registered, nfcalls, fgot, flog, fhist>>
    /\ UNCHANGED not_font

\* lru_cache: the wrapper stores the result unless the call was cached in the
\* meantime, and returns the result of this run.
GrStore(p) ==
    /\ fpc[p] = "gr_store"
    /\ lru' = IF lru = 0 THEN freg[p] ELSE lru
    /\ FGoto(p, "gr_have")
    /\ UNCHANGED <<fcall, freg, builds, registered, nfcalls, fgot, flog, fhist>>
    /\ UNCHANGED not_font

FForget(p) ==
    /\ fpc' = [fpc EXCEPT ![p] = "idle"]
    /\ fcall' = [fcall EXCEPT ![p] = NoFontCall]
    /\ freg' = [freg EXCEPT ![p] = 0]

\* main.py, lines 41-48: the endpoint returns the families of the list.
FontsReturn(p) ==
    /\ fpc[p] = "gr_have"
    /\ fcall[p].kind = "fonts"
    /\ fgot' = fgot \cup {freg[p]}
    /\ FForget(p)
    /\ UNCHANGED <<lru, builds, registered, nfcalls, flog, fhist>>
    /\ UNCHANGED not_font

\* Lines 150-172: the rest of resolve_font_family.
RfResolve(p) ==
    /\ fpc[p] = "gr_have"
    /\ fcall[p].kind = "resolve"
    /\ fgot' = fgot \cup {freg[p]}
    /\ \E ok \in BOOLEAN :
         LET requested == Strip(fcall[p].requested)
             r == Resolve(requested, RegistryList, registered, ok)
         IN  /\ registered' = IF r.registers THEN registered \cup {r.family}
                              ELSE registered
             /\ flog' = flog \cup {FLogEntry(fcall[p].requested,
                                             requested \in registered, r)}
             /\ fhist' = Returned(fhist, fcall[p].requested, r)
    /\ FForget(p)
    /\ UNCHANGED <<lru, builds, nfcalls>>
    /\ UNCHANGED not_font

\* The same calls, when no other call is in progress.
FQuiescent == \A q \in Callers : fpc[q] = "idle"
FontsCallSeq(p) == FQuiescent /\ FontsCall(p)
RfCallSeq(p, fam) == FQuiescent /\ RfCall(p, fam)

FontSteps(p) ==
    GrLookup(p) \/ GrBuild(p) \/ GrStore(p) \/ FontsReturn(p) \/ RfResolve(p)

NextFontSeq ==
    \E p \in Callers :
        \/ FontsCallSeq(p)
        \/ \E fam \in RequestedFamilies : RfCallSeq(p, fam)
        \/ FontSteps(p)

NextFont ==
    \E p \in Callers :
        \/ FontsCall(p)
        \/ \E fam \in RequestedFamilies : RfCall(p, fam)
        \/ GrLookup(p)
        \/ GrBuild(p)
        \/ GrStore(p)
        \/ FontsReturn(p)
        \/ RfResolve(p)

(***************************************************************************)
(* outline_text_ops_pt_with_metrics (app/services/outlined_text.py).  A     *)
(* font is what the function reads of it: unitsPerEm, the cmap, the hmtx    *)
(* advances, the subtables of its kern table (None when it has none) and,   *)
(* per glyph, the x coordinates of the points of its outline.  Coordinates  *)
(* in pt are counted in 1/unitsPerEm pt, so that units * font_size_pt /     *)
(* unitsPerEm is units * font_size_pt.                                      *)
(***************************************************************************)
MaxTextLen == 3

NoKernTable == <<>>
KernSubtable(coverage, pairs) == [coverage |-> coverage, pairs |-> pairs]
KernPair(left, right, val) == [left |-> left, right |-> right, val |-> val]

\* Two horizontal subtables (the second repeats a pair of the first), a
\* subtable without horizontal coverage and a pair of value 0.
KernedTables ==
    << KernSubtable(1, << KernPair("A", "V", 0 - 80), KernPair("V", "A", 0 - 60),
                          KernPair("A", "A", 0) >>),
       KernSubtable(0, << KernPair("V", "V", 40) >>),
       KernSubtable(1, << KernPair("V", "A", 0 - 50), KernPair(".notdef", "A", 30) >>) >>

GlyphNames == {"A", "V", "space", ".notdef"}
Cmap(ch) == IF ch = "A" THEN "A" ELSE IF ch = "V" THEN "V"
            ELSE IF ch = " " THEN "space" ELSE ""
OutlineXs(g) == IF g = "A" THEN <<0, 300, 600>> ELSE IF g = "V" THEN <<10, 320>>
                ELSE IF g = ".notdef" THEN <<50, 450>> ELSE <<>>

\* hmtx.metrics; the second font has no entry for the space glyph.
FullHmtx == {<<"A", 600>>, <<"V", 650>>, <<"space", 250>>, <<".notdef", 500>>}
TextFonts ==
    {[name |-> "kerned", unitsPerEm |-> 1000, hmtx |-> FullHmtx, kern |-> KernedTables],
     [name |-> "plain", unitsPerEm |-> 1000,
      hmtx |-> FullHmtx \ {<<"space", 250>>}, kern |-> NoKernTable],
     [name |-> "broken", unitsPerEm |-> 0, hmtx |-> FullHmtx, kern |-> NoKernTable]}
TextChars == {"A", "V", " ", "?"}
Texts == UNION {[1..n -> TextChars] : n \in 0..MaxTextLen}
FontSizesPt == {10}

\* _build_kern_pairs, lines 15-30: the pairs of the subtables with the
\* horizontal bit set, a later subtable replacing the value of an earlier
\* one, values of 0 left out.
RECURSIVE KernPairsFrom(_, _)
KernPairsFrom(pairs, acc) ==
    IF pairs = <<>> THEN acc
    ELSE LET p == Head(pairs)
             key == <<p.left, p.right>>
         IN  KernPairsFrom(Tail(pairs),
                IF p.val # 0
                THEN [k \in DOMAIN acc \cup {key} |-> IF k = key THEN p.val ELSE acc[k]]
                ELSE acc)

RECURSIVE BuildFrom(_, _)
BuildFrom(tables, acc) ==
    IF tables = <<>> THEN acc
    ELSE BuildFrom(Tail(tables),
            IF Head(tables).coverage % 2 = 0 THEN acc
            ELSE KernPairsFrom(Head(tables).pairs, acc))

_build_kern_pairs(font) == BuildFrom(font.kern, [k \in {} |-> 0])

\* kern_pairs.get((prev_glyph_name, glyph_name), 0.0)
KernGet(kern_pairs, left, right) ==
    IF <<left, right>> \in DOMAIN kern_pairs THEN kern_pairs[<<left, right>>] ELSE 0

\* Line 104: str(cmap.get(code) or ".notdef")
GlyphName(ch) == IF Cmap(ch) = "" THEN ".notdef" ELSE Cmap(ch)

\* Lines 109-112: hmtx.get(glyph_name, (0, 0))
AdvanceWidth(font, g) ==
    IF \E e \in font.hmtx : e[1] = g
    THEN (CHOOSE e \in font.hmtx : e[1] = g)[2]
    ELSE 0

\* Lines 106-107: the cursor the glyph is drawn at; prev is "" for None.
CursorUnkerned(font, cursor, prev, g) == cursor
CursorForGlyph(font, cursor, prev, g) ==
    IF prev # "" THEN cursor + KernGet(_build_kern_pairs(font), prev, g)
    ELSE cursor

NoFontChosen == [name |-> "", unitsPerEm |-> 0, hmtx |-> {}, kern |-> NoKernTable]

StartOutline(texts, fonts) ==
    /\ otext \in texts
    /\ ofont \in fonts
    /\ osize \in FontSizesPt
    /\ opc = "start"
    /\ ocursor = 0
    /\ oprev = ""
    /\ odrawn = <<>>
    /\ oadv = <<>>
    /\ oraw = <<>>
    /\ oret = <<>>

InitOutline == StartOutline(Texts, TextFonts)
IdleOutline == StartOutline({<<>>}, {NoFontChosen})

\* Lines 66-100: the font is loaded and unitsPerEm checked.
OtBegin ==
    /\ opc = "start"
    /\ ofont # NoFontChosen
    /\ opc' = IF ofont.unitsPerEm <= 0 THEN "error" ELSE "loop"
    /\ UNCHANGED <<otext, ofont, osize, ocursor, oprev, odrawn, oadv, oraw, oret>>
    /\ UNCHANGED not_outline

\* Lines 102-159: one character.
OtGlyph ==
    /\ opc = "loop"
    /\ Len(odrawn) < Len(otext)
    /\ LET g == GlyphName(otext[Len(odrawn) + 1])
           at == CursorForGlyph(ofont, ocursor, oprev, g)
           aw == AdvanceWidth(ofont, g)
           xs == OutlineXs(g)
       IN  /\ odrawn' = Append(odrawn, [glyph |-> g, cursor |-> at])
           /\ oraw' = oraw \o [j \in DOMAIN xs |-> (at + xs[j]) * osize]
           /\ oadv' = Append(oadv, aw * osize)
           /\ ocursor' = at + aw
           /\ oprev' = g
    /\ UNCHANGED <<otext, ofont, osize, opc, oret>>
    /\ UNCHANGED not_outline

\* The least element of a non-empty sequence of numbers.
MinOf(xs) == CHOOSE m \in {xs[j] : j \in DOMAIN xs} : \A j \in DOMAIN xs : m <= xs[j]

\* Lines 161-198: the points are moved so that the least x is at x_pt
\* (taken as 0); without a point the result is empty.
OtReturn ==
    /\ opc = "loop"
    /\ Len(odrawn) = Len(otext)
    /\ oret' = IF oraw = <<>> THEN <<>>
               ELSE [j \in DOMAIN oraw |-> oraw[j] - MinOf(oraw)]
    /\ opc' = "done"
    /\ UNCHANGED <<otext, ofont, osize, ocursor, oprev, odrawn, oadv, oraw>>
    /\ UNCHANGED not_outline

NextOutline == OtBegin \/ OtGlyph \/ OtReturn

(***************************************************************************)
(* _font_family_from_file (app/services/font_registry.py).  A font file is  *)
(* the sequence of the records of its name table, or NoNameTable when the   *)
(* file cannot be opened or has no name table.  A record carries what       *)
(* rec.toUnicode() gives and what str(rec.string, errors="ignore") gives,   *)
(* each a string or Undecodable when the call raises.                       *)
(***************************************************************************)
MaxNames == 3

Str(s) == [kind |-> "str", s |-> s]
Undecodable == [kind |-> "raises", s |-> ""]
NoFamily == [kind |-> "none", s |-> ""]
NameTable(names) == [readable |-> TRUE, names |-> names]
NoNameTable == [readable |-> FALSE, names |-> <<>>]

NameRecord(nameID, platformID, unicode, string) ==
    [nameID |-> nameID, platformID |-> platformID, unicode |-> unicode, string |-> string]

NameValues == {<<Str("Arial"), Str("Arial")>>, <<Str("Helvetica"), Str("Helvetica")>>,
               <<Str(""), Str("")>>, <<Undecodable, Str("Raw")>>,
               <<Undecodable, Undecodable>>}
Platforms == {1, 3}
NameRecords ==
    {NameRecord(1, p, v[1], v[2]) : p \in Platforms, v \in NameValues}
    \cup {NameRecord(4, p, Str("Arial Bold"), Str("Arial Bold")) : p \in Platforms}
NameTables == {NameTable(names) : names \in UNION {[1..n -> NameRecords] : n \in 0..MaxNames}}

\* Lines 90-96: the value read from a record.
RecordValue(rec) == IF rec.unicode # Undecodable THEN rec.unicode ELSE rec.string

StartNames(tables) ==
    /\ nnames \in tables
    /\ npos = 0
    /\ nbest = NoFamily
    /\ npc = "open"
    /\ nret = NoFamily

InitNames == StartNames(NameTables \cup {NoNameTable})
IdleNames == /\ nnames = NoNameTable
             /\ npos = 0
             /\ nbest = NoFamily
             /\ npc = "idle"
             /\ nret = NoFamily

\* Lines 76-84: without a readable name table the result is None.
FfOpen ==
    /\ npc = "open"
    /\ IF nnames = NoNameTable
       THEN npc' = "done" /\ nret' = NoFamily
       ELSE npc' = "loop" /\ nret' = nret
    /\ UNCHANGED <<nnames, npos, nbest>>
    /\ UNCHANGED not_names

\* Lines 87-102: one record of the loop.
FfRecord ==
    /\ npc = "loop"
    /\ npos < Len(nnames.names)
    /\ LET rec == nnames.names[npos + 1]
           value == RecordValue(rec)
       IN  IF rec.nameID # 1 \/ value = Undecodable \/ value = Str("")
           THEN /\ nbest' = nbest
                /\ npos' = npos + 1
                /\ UNCHANGED <<npc, nret>>
           ELSE IF rec.platformID = 3
           THEN /\ nbest' = value
                /\ npos' = npos + 1
                /\ npc' = "done"
                /\ nret' = value
           ELSE /\ nbest' = value
                /\ npos' = npos + 1
                /\ UNCHANGED <<npc, nret>>
    /\ UNCHANGED nnames
    /\ UNCHANGED not_names

\* Line 103: return best, once the records are exhausted.
FfReturn ==
    /\ npc = "loop"
    /\ npos = Len(nnames.names)
    /\ npc' = "done"
    /\ nret' = nbest
    /\ UNCHANGED <<nnames, npos, nbest>>
    /\ UNCHANGED not_names

NextNames == FfOpen \/ FfRecord \/ FfReturn

(***************************************************************************)
(* svg_to_pdf_cached_original_size (app/services/normalize.py, lines        *)
(* 56-102), one file operation a step.  The file at a cache path is         *)
(* "absent", "empty" (created or truncated, nothing written), "partial"     *)
(* (begins with %PDF-, not all written), "holed" (its end written, its      *)
(* beginning cut off by another writer's truncation), "pdf" (all written)   *)
(* or "garbage" (all written, not a PDF).  A caller that converts holds an  *)
(* open file: "attached" while the cache path still names that file and     *)
(* nothing it wrote was cut off, "lost" when another caller's open          *)
(* truncated what it had written, "orphan" when the path was unlinked.      *)
(***************************************************************************)
NoBg == [at |-> "idle", svg |-> "", fd |-> "none", out |-> ""]
BgPath(p) == PdfPath(sha256_hex(<<bg[p].svg>>))
StaleFiles == {"absent", "empty", "garbage", "partial", "pdf"}

StartBg(files) ==
    /\ bg = [p \in Callers |-> NoBg]
    /\ bfile \in files
    /\ bcalls = 0
    /\ blog = {}
    /\ bdel = {}

\* The cache directory as earlier processes may have left it.
InitBg == StartBg([PdfPaths -> StaleFiles])
IdleBg == StartBg({[f \in PdfPaths |-> "absent"]})
\* A cache directory that holds finished conversions only.
InitBgClean ==
    StartBg({[f \in PdfPaths |-> "absent"],
             [f \in PdfPaths |-> IF f = PdfPath(sha256_hex(<<"svgA">>))
                                 THEN "pdf" ELSE "absent"]})

BgGoto(p, where) == bg' = [bg EXCEPT ![p].at = where]
BgIdle == \A q \in Callers : bg[q].at = "idle"

\* The call ends: what it returned, the file at the path at that moment and
\* whether a conversion was made.
BgLog(p, answer, via) ==
    blog' = blog \cup {[svg |-> bg[p].svg, result |-> answer,
                        file |-> bfile'[BgPath(p)], via |-> via]}

\* Path.unlink(missing_ok=True)
NoUnlink(files, f) == files
Unlink(files, f) == [files EXCEPT ![f] = "absent"]

\* The callers other than p that hold the file at p's path open for writing.
WritersAt(p) ==
    {q \in Callers \ {p} : bg[q].fd \in {"attached", "lost"} /\ BgPath(q) = BgPath(p)}

\* The unlink of p's path: the open files of the other writers stay open and
\* are no longer reachable by the path.
BgUnlinked(p, at, svg) ==
    /\ bfile' = Unlink(bfile, BgPath(p))
    /\ bg' = [q \in Callers |->
                IF q = p THEN [NoBg EXCEPT !.at = at, !.svg = svg]
                ELSE IF q \in WritersAt(p) /\ bfile' # bfile
                THEN [bg[q] EXCEPT !.fd = "orphan"]
                ELSE bg[q]]
    /\ bdel' = IF bfile[BgPath(p)] = "absent" THEN bdel
               ELSE bdel \cup {[file |-> bfile[BgPath(p)],
                                being_written |-> WritersAt(p) # {}]}

\* Lines 66-72: the bytes are read and hashed, the cache path is formed.
BgCall(p, svg) ==
    /\ bg[p].at = "idle"
    /\ bcalls < MaxCalls
    /\ bcalls' = bcalls + 1
    /\ bg' = [bg EXCEPT ![p] = [NoBg EXCEPT !.at = "exists", !.svg = svg]]
    /\ UNCHANGED <<bfile, blog, bdel>>
    /\ UNCHANGED not_bg

\* Line 73: cached_pdf_path.exists()
BgExists(p) ==
    /\ bg[p].at = "exists"
    /\ BgGoto(p, IF bfile[BgPath(p)] # "absent" THEN "head" ELSE "open")
    /\ UNCHANGED <<bfile, bcalls, blog, bdel>>
    /\ UNCHANGED not_bg

\* Lines 74-80: the first five bytes are read; %PDF- returns the path, and
\* a file that vanished meanwhile (OSError) goes on to the unlink.
BgHead(p) ==
    /\ bg[p].at = "head"
    /\ UNCHANGED <<bfile, bcalls, bdel>>
    /\ IF HeadIsPdf(bfile[BgPath(p)])
       THEN /\ BgLog(p, "path", "cached")
            /\ bg' = [bg EXCEPT ![p] = NoBg]
       ELSE /\ BgGoto(p, "unlink")
            /\ UNCHANGED blog
    /\ UNCHANGED not_bg

\* Lines 81-84: the file without the signature is unlinked.
BgUnlink(p) ==
    /\ bg[p].at = "unlink"
    /\ BgUnlinked(p, "open", bg[p].svg)
    /\ UNCHANGED <<bcalls, blog>>
    /\ UNCHANGED not_bg

\* Line 87: cairosvg.svg2pdf raises, or opens the path for writing, which
\* creates the file or truncates the one that is there.
BgOpen(p) ==
    /\ bg[p].at = "open"
    /\ \E out \in ConvertOutcomes(bg[p].svg) :
         IF out = "raise"
         THEN /\ UNCHANGED <<bfile, bdel>>
              /\ BgLog(p, "error", "converted")
              /\ bg' = [bg EXCEPT ![p] = NoBg]
         ELSE /\ bfile' = [bfile EXCEPT ![BgPath(p)] = "empty"]
              /\ bg' = [q \in Callers |->
                          IF q = p
                          THEN [bg[p] EXCEPT !.at = IF out = "pdf" THEN "flush" ELSE "close",
                                             !.fd = "attached", !.out = out]
                          ELSE IF q \in WritersAt(p) /\ bg[q].at = "close"
                                  /\ bg[q].out = "pdf"
                          THEN [bg[q] EXCEPT !.fd = "lost"]
                          ELSE bg[q]]
              /\ UNCHANGED <<blog, bdel>>
    /\ UNCHANGED bcalls
    /\ UNCHANGED not_bg

\* Line 87, going on: the beginning of the PDF reaches the file.
BgFlush(p) ==
    /\ bg[p].at = "flush"
    /\ bfile' = IF bg[p].fd = "orphan" THEN bfile
                ELSE [bfile EXCEPT ![BgPath(p)] =
                        IF @ = "empty" THEN "partial"
                        ELSE IF @ = "holed" THEN "pdf" ELSE @]
    /\ BgGoto(p, "close")
    /\ UNCHANGED <<bcalls, blog, bdel>>
    /\ UNCHANGED not_bg

\* Line 87, ending: the rest is written and the file closed.
BgClose(p) ==
    /\ bg[p].at = "close"
    /\ bfile' = IF bg[p].fd = "orphan" THEN bfile
                ELSE [bfile EXCEPT ![BgPath(p)] =
                        IF bg[p].out = "garbage" THEN "garbage"
                        ELSE IF bg[p].fd = "lost" /\ @ = "empty" THEN "holed"
                        ELSE "pdf"]
    /\ bg' = [bg EXCEPT ![p].at = "check", ![p].fd = "none"]
    /\ UNCHANGED <<bcalls, blog, bdel>>
    /\ UNCHANGED not_bg

\* Lines 89-93 and 102: the first five bytes of the output are read (b"" on
\* OSError); with the signature the path is returned.
BgCheck(p) ==
    /\ bg[p].at = "check"
    /\ UNCHANGED <<bfile, bcalls, bdel>>
    /\ IF HeadIsPdf(bfile[BgPath(p)])
       THEN /\ BgLog(p, "path", "converted")
            /\ bg' = [bg EXCEPT ![p] = NoBg]
       ELSE /\ BgGoto(p, "reject")
            /\ UNCHANGED blog
    /\ UNCHANGED not_bg

\* Lines 95-100: the output is unlinked and RuntimeError raised.
BgReject(p) ==
    /\ bg[p].at = "reject"
    /\ BgUnlinked(p, "idle", "")
    /\ blog' = blog \cup {[svg |-> bg[p].svg, result |-> "error",
                           file |-> bfile'[BgPath(p)], via |-> "converted"]}
    /\ UNCHANGED bcalls
    /\ UNCHANGED not_bg

BgCallSeq(p, svg) == BgIdle /\ BgCall(p, svg)

\* One call after the other.
NextBgSeq ==
    \E p \in Callers :
        \/ \E svg \in RenderDocs : BgCallSeq(p, svg)
        \/ BgExists(p)
        \/ BgHead(p)
        \/ BgUnlink(p)
        \/ BgOpen(p)
        \/ BgFlush(p)
        \/ BgClose(p)
        \/ BgCheck(p)
        \/ BgReject(p)

\* The calls of the threads that serve requests.
NextBg ==
    \E p \in Callers :
        \/ \E svg \in RenderDocs : BgCall(p, svg)
        \/ BgExists(p)
        \/ BgHead(p)
        \/ BgUnlink(p)
        \/ BgOpen(p)
        \/ BgFlush(p)
        \/ BgClose(p)
        \/ BgCheck(p)
        \/ BgReject(p)

(***************************************************************************)
(* Specifications, one for each part.                                      *)
(***************************************************************************)
InitSpecPdf == InitPdf /\ IdleHash /\ IdleCache /\ IdleFont /\ IdleOutline /\ IdleNames /\ IdleBg
SpecPdf == InitSpecPdf /\ [][NextPdf]_vars

\* write_final_pdf over the per-letter sizes.
InitSpecGlyph == InitGlyph /\ IdleHash /\ IdleCache /\ IdleFont /\ IdleOutline /\ IdleNames /\ IdleBg
SpecGlyph == InitSpecGlyph /\ [][NextPdf]_vars

\* write_final_pdf over the series placements and the overlays.
InitSpecCanvas == InitCanvas /\ IdleHash /\ IdleCache /\ IdleFont /\ IdleOutline /\ IdleNames /\ IdleBg
SpecCanvas == InitSpecCanvas /\ [][NextPdf]_vars

\* write_final_pdf over the layouts.
InitSpecLayout == InitLayout /\ IdleHash /\ IdleCache /\ IdleFont /\ IdleOutline /\ IdleNames /\ IdleBg
SpecLayout == InitSpecLayout /\ [][NextPdf]_vars

InitSpecHash == InitHash /\ IdlePdf /\ IdleCache /\ IdleFont /\ IdleOutline /\ IdleNames /\ IdleBg
SpecHash == InitSpecHash /\ [][NextHash]_vars

InitSpecTemplate == IdleCache /\ IdlePdf /\ IdleHash /\ IdleFont /\ IdleOutline /\ IdleNames /\ IdleBg
SpecTemplate == InitSpecTemplate /\ [][NextTemplate]_vars
SpecTemplateSeq == InitSpecTemplate /\ [][NextTemplateSeq]_vars

InitSpecRender == InitCache /\ IdlePdf /\ IdleHash /\ IdleFont /\ IdleOutline /\ IdleNames /\ IdleBg
SpecRenderSeq == InitSpecRender /\ [][NextRenderSeq]_vars
SpecRenderModes == InitSpecRender /\ [][NextRenderModes]_vars

InitSpecFont == InitFont /\ IdlePdf /\ IdleHash /\ IdleCache /\ IdleOutline /\ IdleNames /\ IdleBg
SpecFont == InitSpecFont /\ [][NextFont]_vars
SpecFontSeq == InitSpecFont /\ [][NextFontSeq]_vars

InitSpecOutline == InitOutline /\ IdlePdf /\ IdleHash /\ IdleCache /\ IdleFont /\ IdleNames /\ IdleBg
SpecOutline == InitSpecOutline /\ [][NextOutline]_vars

InitSpecNames == InitNames /\ IdlePdf /\ IdleHash /\ IdleCache /\ IdleFont /\ IdleOutline /\ IdleBg
SpecNames == InitSpecNames /\ [][NextNames]_vars

InitSpecBg == InitBg /\ IdlePdf /\ IdleHash /\ IdleCache /\ IdleFont /\ IdleOutline /\ IdleNames
SpecBgSeq == InitSpecBg /\ [][NextBgSeq]_vars
InitSpecBgClean == InitBgClean /\ IdlePdf /\ IdleHash /\ IdleCache /\ IdleFont /\ IdleOutline /\ IdleNames
SpecBg == InitSpecBgClean /\ [][NextBg]_vars

(***************************************************************************)
(* Properties of write_final_pdf and the serial generator.                 *)
(***************************************************************************)
Filled == SelectSeq(visited, LAMBDA v : v.filled)

\* C1: slots are visited page-ascending then slot-ascending, and the i-th
\* serial value (0-indexed: prefix + zero-padded(base + i)) is drawn in the
\* i-th filled slot of that order; none is skipped, repeated or out of order.
C1_RasterOrder ==
    /\ \A k \in 1..Len(visited) :
            /\ visited[k].page = (k - 1) \div OBJECTS_PER_PAGE
            /\ visited[k].slot = (k - 1) % OBJECTS_PER_PAGE
    /\ \A i \in 1..Len(Filled) :
            Filled[i].serial =
                _series_value(parsed.prefix, parsed.base, parsed.width, i - 1)
    /\ serial_index = Len(Filled)

\* A finished run of two pages: five serials, the fifth on the second page.
C1_Witness ==
    /\ wpc = "done"
    /\ Len(Filled) = 5
    /\ Filled[5].page = 1 /\ Filled[5].slot = 0

\* C2: a successful run with count > 0 emits exactly ceil(count/4) pages and
\* fills exactly count slots; the blank slots are exactly the trailing
\* 4*ceil(count/4) - count slots of the last page.
C2_PagesAndBlanks ==
    wpc = "done" =>
        /\ wcfg.count > 0
        /\ pages_out * OBJECTS_PER_PAGE >= wcfg.count
        /\ (pages_out - 1) * OBJECTS_PER_PAGE < wcfg.count
        /\ Len(visited) = pages_out * OBJECTS_PER_PAGE
        /\ Len(Filled) = wcfg.count
        /\ \A k \in 1..Len(visited) : visited[k].filled <=> (k <= wcfg.count)
        /\ \A k \in 1..Len(visited) :
                ~visited[k].filled =>
                    /\ visited[k].page = pages_out - 1
                    /\ k > Len(visited) - (OBJECTS_PER_PAGE * pages_out - wcfg.count)

\* A finished run whose count is not divisible by 4: three blank slots.
C2_Witness ==
    /\ wpc = "done"
    /\ wcfg.count = 5
    /\ pages_out = 2
    /\ ~visited[6].filled /\ ~visited[8].filled

\* The decomposition of a start string that ends in a digit, stated without
\* the regular expression: the trailing digit run, what precedes it, and the
\* value of the run.
RECURSIVE RefWidth(_)
RefWidth(s) ==
    IF Len(s) = 0 \/ ~IsDigit(s[Len(s)]) THEN 0
    ELSE 1 + RefWidth(SubSeq(s, 1, Len(s) - 1))

RECURSIVE Pow10(_)
Pow10(k) == IF k = 0 THEN 1 ELSE 10 * Pow10(k - 1)

RECURSIVE DecValue(_)
DecValue(ds) ==
    IF Len(ds) = 0 THEN 0
    ELSE DigitVal(ds[1]) * Pow10(Len(ds) - 1) + DecValue(Tail(ds))

NumDigits(n) == CHOOSE d \in 1..(MaxStartLen + 3) : n < Pow10(d) /\ (d = 1 \/ n >= Pow10(d - 1))
Max(a, b) == IF a >= b THEN a ELSE b

\* C3: for a start that is a prefix followed by a digit run of length width
\* and value base, the serial sequence has exactly count entries; entry i is
\* the verbatim prefix followed by base + i in decimal, left-padded with
\* zeros to width (longer only when base + i needs more digits); the values
\* increase strictly from base.
C3_SerialSequence ==
    (wpc = "done" /\ IsDigit(wcfg.start[Len(wcfg.start)])) =>
        LET w  == RefWidth(wcfg.start)
            pl == Len(wcfg.start) - w
            pre == SubSeq(wcfg.start, 1, pl)
            b  == DecValue(SubSeq(wcfg.start, pl + 1, Len(wcfg.start)))
            num(i) == SubSeq(Filled[i].serial, pl + 1, Len(Filled[i].serial))
        IN  /\ Len(Filled) = wcfg.count
            /\ \A i \in 1..Len(Filled) :
                    /\ Len(Filled[i].serial) = pl + Max(w, NumDigits(b + i - 1))
                    /\ SubSeq(Filled[i].serial, 1, pl) = pre
                    /\ \A k \in 1..Len(num(i)) : IsDigit(num(i)[k])
                    /\ DecValue(num(i)) = b + i - 1
            /\ \A i \in 1..(Len(Filled) - 1) :
                    DecValue(num(i + 1)) > DecValue(num(i))

\* A finished run whose prefix holds a digit and a space and whose number
\* outgrows the width of the start: " 09" -> " 09", " 10"; "0A9" -> "0A10".
C3_Witness ==
    /\ wpc = "done"
    /\ wcfg.start = <<"0", "A", "9">>
    /\ Len(Filled) >= 2
    /\ Filled[2].serial = <<"0", "A", "1", "0">>


(***************************************************************************)
(* Properties of compute_template_id.                                      *)
(***************************************************************************)
\* What a payload means: a dict is the set of its items, a missing list is
\* the empty list.
MeanDict(d) == {d[i] : i \in DOMAIN d}
MeanList(l) == [i \in 1..Len(l.items) |-> MeanDict(l.items[i])]
MeanPayload(p) ==
    [svg_hash |-> p.svg_hash, object_mm |-> MeanDict(p.object_mm),
     series |-> MeanDict(p.series), custom_fonts |-> MeanList(p.custom_fonts),
     overlays |-> MeanList(p.overlays), render_mode |-> p.render_mode]

\* C4: compute_template_id returns the same id for equal payloads, for
\* payloads whose dicts differ only in key order, and for None in place of an
\* empty list; payloads that differ in svg_hash, object_mm, series,
\* custom_fonts, overlays or render_mode have different serialisations (and,
\* the digest being collision-free, different ids).
C4_TemplateIdStable ==
    (idA # NoId /\ idB # NoId) =>
        /\ (MeanPayload(payA) = MeanPayload(payB)) <=> (idA = idB)
        /\ (idA = idB) <=> (DumpPayload(payA) = DumpPayload(payB))

\* Two calls whose payloads are written differently (key order of object_mm,
\* None against [] for custom_fonts) and return the same id.
C4_Witness ==
    /\ idA # NoId /\ idA = idB
    /\ payA.object_mm # payB.object_mm
    /\ payA.custom_fonts.isNone /\ ~payB.custom_fonts.isNone

(***************************************************************************)
(* Template cache and render_job.                                          *)
(***************************************************************************)
\* Equality of two Template objects (a dataclass: field by field, dicts
\* compared as mappings).
MeanDicts(l) == [i \in 1..Len(l) |-> MeanDict(l[i])]
MeanTemplate(t) ==
    [template_id |-> t.template_id,
     background_pdf_path |-> t.background_pdf_path,
     object_box_mm |-> MeanDict(t.object_box_mm),
     series_config |-> MeanDict(t.series_config),
     custom_fonts |-> MeanDicts(t.custom_fonts),
     overlays |-> MeanDicts(t.overlays),
     render_mode |-> t.render_mode]

\* C5: load_or_create_template called twice with the same inputs, the first
\* call a miss that persists the record and the second a hit that reads it
\* back, returns two Templates equal in every field.
C5_Idempotent ==
    \A c1, c2 \in loclog :
        (c1.path = "miss" /\ c2.path = "hit" /\ c1.args = c2.args)
            => MeanTemplate(c1.ret) = MeanTemplate(c2.ret)

\* C6: once the record of a template id is persisted, a later call for that
\* id returns the persisted descriptor, and the record is written at most
\* once.
C6_ReturnsPersisted ==
    /\ \A t \in TemplateIds : WritesOf(t) <= 1
    /\ Quiescent =>
         \A c \in loclog :
            c.path = "hit" =>
                LET m == FileOf(c.args.template_id).meta
                IN  MeanTemplate(c.ret) =
                        [template_id |-> m.template_id,
                         background_pdf_path |-> m.background_pdf_path,
                         object_box_mm |-> MeanDict(m.object_box_mm),
                         series_config |-> MeanDict(m.series_config),
                         custom_fonts |-> MeanDicts(m.custom_fonts),
                         overlays |-> MeanDicts(m.overlays),
                         render_mode |-> m.render_mode]

\* The part of C6 that the code keeps, one call after the other: a record is
\* written once and later calls leave it as it is.
RecordNeverRewritten ==
    [][\A t \in TemplateIds :
          (t \in DOMAIN tstore /\ tstore[t].state = "full")
              => tstore'[t] = tstore[t]]_vars

\* Requests with the same background bytes and the same render-affecting
\* configuration.
SameTemplate(e1, e2) ==
    /\ e1.svg = e2.svg
    /\ e1.cfg = e2.cfg
    /\ RenderMode(e1.raw_mode) = RenderMode(e2.raw_mode)

SameIds ==
    \A e1, e2 \in joblog :
        (SameTemplate(e1, e2) /\ e1.tid # NoId /\ e2.tid # NoId) => e1.tid = e2.tid

\* C7 as stated: over sequential render_job requests with the same
\* background bytes and configuration the template id is the same, the
\* conversion is invoked at most once and the record written at most once.
C7_ConvertedAtMostOnce ==
    /\ SameIds
    /\ \A f \in PdfPaths : conv_count[f] <= 1
    /\ \A t \in TemplateIds : WritesOf(t) <= 1

\* C7 as the code has it: the template id is the same, the record is written
\* at most once, the conversion succeeds at most once and is not invoked
\* again once it has succeeded; a conversion that failed cached nothing.
C7_ConvertedOnceWhenValid ==
    /\ [](/\ SameIds
          /\ \A t \in TemplateIds : WritesOf(t) <= 1
          /\ \A f \in PdfPaths :
                /\ conv_done[f] <= 1
                /\ conv_done[f] = 0 => pdfs[f] # "pdf")
    /\ [][\A f \in PdfPaths :
            conv_done[f] >= 1 => conv_count'[f] = conv_count[f]]_vars

\* Three requests for one template, served one after the other, with one
\* conversion and one record written.
C7_Witness ==
    /\ Cardinality(uploaded) = MaxCalls
    /\ Cardinality({e \in joblog : e.status = "DONE"}) = 1
    /\ Cardinality({e.raw_mode : e \in joblog}) = 1
    /\ \E f \in PdfPaths : conv_count[f] = 1 /\ conv_done[f] = 1
    /\ \E t \in TemplateIds : WritesOf(t) = 1

\* C8: concurrent load_or_create_template calls never fail because of the
\* interleaving: no call reads a record that exists but is empty.
C8_NoTornRead ==
    \A c \in loclog : c.path # "failed"

\* The other half of C8: a call that finds a valid record does not rewrite it.
C8_NoRewrite ==
    \A t \in TemplateIds : WritesOf(t) <= 1

(***************************************************************************)
(* Font registry.                                                          *)
(***************************************************************************)
\* C9: the body of get_font_registry runs at most once, also under
\* concurrent first calls, and all callers receive the same registry list.
C9_BuiltOnce ==
    /\ builds <= 1
    /\ Cardinality(fgot) <= 1

\* What the claim's cases are for a requested name, read off the font files.
LowerCore == {Lower(n) : n \in CoreSet}
FileFamilies == {FontFiles[i].family : i \in DOMAIN FontFiles} \ {""}
Blank(req) == req \in {"", " "}
Trimmed(req) == IF req = " Arial " THEN "Arial" ELSE req
ExactKnown(e) == Trimmed(e.requested) \in CoreSet \/ e.known
InRegistry(req) ==
    Lower(Trimmed(req)) \in LowerCore \cup {Lower(f) : f \in FileFamilies}
\* The entry the registry has for the name: a core font, else the first
\* file of that family.
MatchSource(req) == IF Lower(Trimmed(req)) \in LowerCore THEN "pdf-core" ELSE "system"
MatchUsable(req) ==
    /\ Lower(Trimmed(req)) \notin LowerCore
    /\ LET first == CHOOSE i \in DOMAIN FontFiles :
                       /\ Lower(FontFiles[i].family) = Lower(Trimmed(req))
                       /\ \A j \in DOMAIN FontFiles :
                            Lower(FontFiles[j].family) = Lower(Trimmed(req)) => i <= j
       IN  FontFiles[first].embeddable

\* C10: resolve_font_family never raises; a blank or unmatched name gives
\* ("Helvetica", "pdf-core", false); a registry match without path, not
\* embeddable, or whose registration fails gives ("Helvetica", <entry
\* source>, false); embedded is true only for a non-core family registered
\* in the renderer.
C10_ResolveFallbacks ==
    \A e \in flog :
        /\ ~e.raised
        /\ (Blank(e.requested) \/ (~ExactKnown(e) /\ ~InRegistry(e.requested)))
              => (e.family = "Helvetica" /\ e.source = "pdf-core" /\ ~e.embedded)
        /\ (/\ ~Blank(e.requested) /\ ~ExactKnown(e) /\ InRegistry(e.requested)
            /\ (~MatchUsable(e.requested) \/ e.regfail))
              => (/\ e.family = "Helvetica"
                  /\ e.source = MatchSource(e.requested)
                  /\ ~e.embedded)
        /\ e.embedded => (e.family \notin CoreSet /\ e.family \in registered)

\* Every case of C10 has happened: a blank name, an unknown one, a font that
\* may not be embedded, a failed registration and an embedded font.
C10_Witness ==
    /\ \E e \in flog : e.requested = "Locked" /\ e.source = "system" /\ ~e.embedded
    /\ \E e \in flog : e.requested = "ARIAL" /\ e.regfail
    /\ \E e \in flog : e.requested = " Arial " /\ e.embedded /\ e.family = "Arial"

(***************************************************************************)
(* Render mode.                                                            *)
(***************************************************************************)
VisibleModes ==
    {"preview", "print_authoritative", "deterministic_outlined",
     "deterministic_outlined_4up", "exact_mm"}

\* C11: the mode flag of a request is normalised to exact_mm or legacy
\* before it is hashed into the template id and stored in the template:
\* every visible mode gives exact_mm, every other value that is given
\* gives legacy.
C11_ModeNormalized ==
    \A p \in Callers :
        (call[p].kind = "render" /\ largs[p] # NoArgs
            /\ StripMode(call[p].raw_mode) # "") =>
            /\ largs[p].render_mode \in {"exact_mm", "legacy"}
            /\ largs[p].render_mode =
                  IF StripMode(call[p].raw_mode) \in VisibleModes
                  THEN "exact_mm" ELSE "legacy"

\* What the code keeps of C11: the visible modes give exact_mm, and the
\* geometry of write_final_pdf is exact_mm for them and for a blank flag,
\* legacy for everything else.
ModeForGeometry ==
    \A p \in Callers :
        (call[p].kind = "render" /\ largs[p] # NoArgs) =>
            /\ call[p].raw_mode \in VisibleModes => largs[p].render_mode = "exact_mm"
            /\ WriteMode(largs[p].render_mode) = "exact_mm"
                  <=> call[p].raw_mode \in VisibleModes \cup {"", " ", " preview "}


(***************************************************************************)
(* Placement in exact_mm.                                                   *)
(***************************************************************************)
\* The alignment base of an object in its slot; the default is the centre.
AlignmentBase(alignment, slot_rect, object_rect) ==
    LET a == StripLower(IF alignment = "" THEN "center" ELSE alignment)
    IN  IF a = "left" THEN slot_rect.x
        ELSE IF a = "right" THEN slot_rect.x + slot_rect.w - object_rect.w
        ELSE slot_rect.x + ((slot_rect.w - object_rect.w) \div 2)

\* C12: in exact_mm a horizontal offset that is present and exactly 0 puts
\* the object at the left edge of its slot whatever the alignment; an
\* absent or non-zero offset puts it at the alignment base plus the offset.
C12_ZeroOffsetIsSlotLeft ==
    \A k \in DOMAIN visited :
        (visited[k].filled /\ wcfg.mode = "exact_mm") =>
            LET e == visited[k]
                x_mm == GetOr(wcfg.x_mm, wcfg.x)
            IN  IF x_mm # None /\ x_mm.val = 0
                THEN e.object_rect.x = e.slot_rect.x
                ELSE e.object_rect.x =
                        AlignmentBase(wcfg.alignment, e.slot_rect, e.object_rect)
                        + (IF x_mm = None THEN 0 ELSE mm_to_pt(x_mm.val))

\* What the code does instead: with the offset 0 the object is at the left
\* edge unless the alignment is right, when it is at the right edge.
ZeroOffsetFollowsRight ==
    \A k \in DOMAIN visited :
        (visited[k].filled /\ wcfg.mode = "exact_mm") =>
            LET e == visited[k]
                x_mm == GetOr(wcfg.x_mm, wcfg.x)
                a == StripLower(IF wcfg.alignment = "" THEN "center" ELSE wcfg.alignment)
            IN  IF x_mm # None /\ x_mm.val = 0
                THEN e.object_rect.x =
                        IF a = "right" THEN e.slot_rect.x + e.slot_rect.w - e.object_rect.w
                        ELSE e.slot_rect.x
                ELSE e.object_rect.x =
                        AlignmentBase(wcfg.alignment, e.slot_rect, e.object_rect)
                        + (IF x_mm = None THEN 0 ELSE mm_to_pt(x_mm.val))


(***************************************************************************)
(* Per-letter font sizes.                                                   *)
(***************************************************************************)
\* The entry of the request's list at index i (from 1) applies when it
\* exists and is a positive number.
EntryApplies(per_letter, i) ==
    /\ per_letter.kind = "list"
    /\ i <= Len(per_letter.items)
    /\ per_letter.items[i].kind = "num"
    /\ per_letter.items[i].val > 0

\* C13: character i of a serial is drawn at per_letter_font_size_mm[i] when
\* that entry exists and is positive and at font_size_mm otherwise; an
\* entry that is not positive or not a number changes the size of no other
\* index.
C13_PerLetterByIndex ==
    \A k \in DOMAIN visited :
        visited[k].filled =>
            \A i \in DOMAIN visited[k].serial :
                visited[k].sizes[i] =
                    IF EntryApplies(wcfg.per_letter, i)
                    THEN wcfg.per_letter.items[i].val
                    ELSE wcfg.font_size_mm

\* What the code does instead: the entries that are not positive numbers
\* are dropped first and the remaining ones apply from index 0 on.
PerLetterAfterDropping ==
    \A k \in DOMAIN visited :
        visited[k].filled =>
            LET kept == IF wcfg.per_letter.kind = "list"
                        THEN SelectSeq(wcfg.per_letter.items,
                                       LAMBDA v : v.kind = "num" /\ v.val > 0)
                        ELSE <<>>
            IN  \A i \in DOMAIN visited[k].serial :
                    visited[k].sizes[i] =
                        IF i <= Len(kept) THEN kept[i].val ELSE wcfg.font_size_mm


(***************************************************************************)
(* The anchor space of the series.                                         *)
(***************************************************************************)
\* A run that got past the series placement check of its first slot.
Accepted ==
    \/ visited # <<>>
    \/ pages_out > 0
    \/ saved
    \/ wpc \in {"save", "upload", "return", "done"}

SeriesXYPresent == wcfg.series_x_mm # None /\ wcfg.series_y_mm # None

\* C14 as stated: a series is accepted only when anchor_space equals
\* "object_mm" and x_mm, y_mm are present.
C14_AnchorExact ==
    Accepted => (wcfg.anchor_space = "object_mm" /\ SeriesXYPresent)

\* C14: a series is accepted only when its anchor_space, stripped and
\* lower-cased, equals "object_mm" and x_mm, y_mm are present; with any
\* other anchor_space the first slot raises the input error, and no slot is
\* completed, no page is emitted and no file is saved.
C14_AnchorNormalized ==
    LET placed == StripLower(wcfg.anchor_space) = "object_mm" /\ SeriesXYPresent
    IN  /\ Accepted => placed
        /\ ~placed =>
                /\ wpc \in {"start", "slot", "error"}
                /\ wpc = "slot" => ops = <<>>
                /\ pages_out = 0 /\ ~saved /\ ~s3_pdf /\ result = NoResult
        /\ (~placed /\ wpc = "error" /\ ops # <<>> /\ ~OverlaysRaise(wcfg.overlays)) =>
                werr = "series placement invalid"
        /\ placed => werr # "series placement invalid"

C14_Witness ==
    /\ wcfg.anchor_space = "page_mm"
    /\ SeriesXYPresent
    /\ wpc = "error"
    /\ werr = "series placement invalid"
    /\ ops # <<>>
    /\ pages_out = 0


(***************************************************************************)
(* Rejection of invalid input by render_job.                                *)
(***************************************************************************)
\* A request write_final_pdf rejects: its series count is not positive.
InvalidInput(cfg) == DictGet(cfg.series, "count") = "0"

\* C15: when render_job has rejected an invalid input, no template cache
\* record has been persisted for it, no output PDF has been written and
\* nothing has been uploaded.
C15_RejectedBeforeOutput ==
    /\ \A e \in joblog :
            (e.status = "error" /\ InvalidInput(e.cfg)) =>
                FileOf(e.tid).state = "absent"
    /\ \A p \in Callers :
            (pc[p] = "rj_final" /\ InvalidInput(call[p].cfg)) =>
                /\ FileOf(largs[p].template_id).state = "absent"
                /\ call[p].job \notin outputs
                /\ call[p].job \notin uploaded

\* What the code keeps: a request that is about to be rejected has written
\* no output PDF and uploaded nothing, and only jobs that wrote their PDF
\* upload it.
RejectedWritesNoPdf ==
    /\ \A p \in Callers :
            (pc[p] = "rj_final" /\ InvalidInput(call[p].cfg)) =>
                /\ call[p].job \notin outputs
                /\ call[p].job \notin uploaded
    /\ uploaded \subseteq outputs


(***************************************************************************)
(* No partial PDF leaves render_job.                                        *)
(***************************************************************************)
DrawnTexts == SelectSeq(ops, LAMBDA o : o.op = "drawText")

\* Every page was emitted and every serial of the series was drawn on it.
AllDrawn ==
    /\ pages_out = total_pages
    /\ total_pages = TotalPages(wcfg.count)
    /\ Len(visited) = OBJECTS_PER_PAGE * total_pages
    /\ Len(Filled) = wcfg.count
    /\ Len(DrawnTexts) = wcfg.count
    /\ \A k \in 1..Len(DrawnTexts) : DrawnTexts[k].n = k - 1

\* C16: the PDF is saved, uploaded and reported DONE with its page count
\* only after every page and every filled slot was drawn without error; a
\* job that failed has uploaded nothing and returned no result.
C16_NoPartialPdf ==
    /\ saved => (AllDrawn /\ werr \in {"", "upload failed"})
    /\ s3_pdf => (saved /\ AllDrawn /\ werr = "")
    /\ result # NoResult =>
            /\ s3_pdf
            /\ result = [status |-> "DONE", pages |-> pages_out]
    /\ wpc = "error" => (~s3_pdf /\ result = NoResult)
    /\ (wpc = "error" /\ werr # "upload failed") => ~saved

C16_Witness ==
    /\ wpc = "done"
    /\ wcfg.count = 5
    /\ s3_pdf
    /\ result = [status |-> "DONE", pages |-> 2]
    /\ Len(DrawnTexts) = 5


(***************************************************************************)
(* The clip in effect.  saveState pushes the graphics state, clipPath sets  *)
(* the clip of the current state, restoreState pops the state that the      *)
(* matching saveState pushed.                                               *)
(***************************************************************************)
NoClip == [n |-> 0 - 1, what |-> "none"]

\* The clip in effect when each of the calls k, k+1, ... is issued.
RECURSIVE ClipTrace(_, _, _, _)
ClipTrace(os, k, cur, stack) ==
    IF k > Len(os) THEN <<>>
    ELSE LET o == os[k]
         IN  <<cur>> \o
             (IF o.op = "saveState" THEN ClipTrace(os, k + 1, cur, <<cur>> \o stack)
              ELSE IF o.op = "clipPath"
              THEN ClipTrace(os, k + 1, [n |-> o.n, what |-> o.what], stack)
              ELSE IF o.op = "restoreState" /\ stack # <<>>
              THEN ClipTrace(os, k + 1, Head(stack), Tail(stack))
              ELSE ClipTrace(os, k + 1, cur, stack))

ClipAt == ClipTrace(ops, 1, NoClip, <<>>)

\* The calls that draw an overlay.
OverlayDraws ==
    {k \in DOMAIN ops : ops[k].op \in {"doForm", "drawImage"} /\ ops[k].what # "background"}

\* C17: every overlay of a filled slot is drawn while the clip of that
\* slot's background is in effect.
C17_OverlaysInsideClip ==
    \A k \in OverlayDraws :
        /\ ClipAt[k] # NoClip
        /\ ClipAt[k].n = ops[k].n

\* What the code does instead: the background's state is restored first,
\* every overlay and every serial text is drawn with no clip in effect, and
\* only the background form is drawn inside the clip of its slot.
OverlaysDrawnUnclipped ==
    \A k \in DOMAIN ops :
        IF ops[k].op = "doForm" /\ ops[k].what = "background"
        THEN ClipAt[k] = [n |-> ops[k].n,
                          what |-> IF wcfg.mode = "exact_mm" THEN "slot" ELSE "object"]
        ELSE (ops[k].op \in {"doForm", "drawImage", "drawText"}) => ClipAt[k] = NoClip


(***************************************************************************)
(* The order of drawing.                                                    *)
(***************************************************************************)
\* The canvas calls that paint: forms, images and text.
Drawings == SelectSeq(ops, LAMBDA o : o.op \in {"doForm", "drawImage", "drawText"})
DrawingsOf(n) == SelectSeq(Drawings, LAMBDA o : o.n = n)
Whats(os) == [i \in DOMAIN os |-> os[i].what]

\* The overlays that have something to draw, in list order.
DrawableIds ==
    LET d == SelectSeq(wcfg.overlays,
                       LAMBDA ov : ov.kind \in {"svg_ref", "image", "svg_data"})
    IN  [i \in DOMAIN d |-> d[i].id]

ExpectedDrawings == <<"background">> \o DrawableIds \o <<"text">>

IsPrefix(a, b) == Len(a) <= Len(b) /\ a = SubSeq(b, 1, Len(a))

\* C18: within a filled slot the background form is drawn first, then the
\* overlays in list order, then the serial text; nothing of a later slot is
\* drawn before the text of an earlier one; a blank slot draws nothing.
C18_DrawingOrder ==
    /\ \A i, j \in DOMAIN Drawings : i < j => Drawings[i].n <= Drawings[j].n
    /\ \A k \in DOMAIN visited :
            Whats(DrawingsOf(k - 1)) =
                IF visited[k].filled THEN ExpectedDrawings ELSE <<>>
    /\ \A i \in DOMAIN Drawings : Drawings[i].n <= Len(visited)
    /\ LET part == Whats(DrawingsOf(Len(visited)))
       IN  IsPrefix(part, ExpectedDrawings) /\ part # ExpectedDrawings

C18_Witness ==
    /\ wpc = "done"
    /\ wcfg.count > OBJECTS_PER_PAGE
    /\ Len(DrawableIds) = 2
    /\ Len(Drawings) = wcfg.count * 4
    /\ \E k \in DOMAIN visited : ~visited[k].filled


(***************************************************************************)
(* The slots of a page.                                                     *)
(***************************************************************************)
\* The cut margin in pt: a margin that is absent, not a number or negative
\* counts as 0.
ClampedMarginPt ==
    IF wcfg.cut_margin_mm.kind = "num" /\ wcfg.cut_margin_mm.val >= 0
    THEN mm_to_pt(wcfg.cut_margin_mm.val)
    ELSE 0

\* The vertical extent of the rectangle the canvas is given for a slot.
RectLow(r) == IF r.h >= 0 THEN r.y ELSE r.y + r.h
RectHigh(r) == IF r.h >= 0 THEN r.y + r.h ELSE r.y
Overlap(r1, r2) == RectLow(r1) < RectHigh(r2) /\ RectLow(r2) < RectHigh(r1)

SamePage(a, b) == visited[a].page = visited[b].page

\* Slot height, slot tops, the gap between consecutive slots and the bottom
\* of the last slot, for the slots visited so far.
ExactSlotGrid ==
    \A k \in DOMAIN visited :
        LET r == visited[k].slot_rect
            i == visited[k].slot
        IN  /\ OBJECTS_PER_PAGE * r.h = PageHPt - (3 * ClampedMarginPt)
            /\ r.y_top = i * (r.h + ClampedMarginPt)
            /\ r.y = PageHPt - r.y_top - r.h
            /\ r.x = 0 /\ r.w = PageWPt
            /\ (k + 1 \in DOMAIN visited /\ SamePage(k, k + 1)) =>
                    visited[k + 1].slot_rect.y_top - (r.y_top + r.h) = ClampedMarginPt
            /\ i = OBJECTS_PER_PAGE - 1 => r.y = 0

NoSlotsOverlap ==
    \A a, b \in DOMAIN visited :
        (a # b /\ SamePage(a, b)) =>
            ~Overlap(visited[a].slot_rect, visited[b].slot_rect)

ObjectExceedsSlot ==
    /\ wcfg.w # None /\ wcfg.h # None
    /\ wcfg.w.val > 0 /\ wcfg.h.val > 0
    /\ \/ mm_to_pt(wcfg.w.val) > PageWPt
       \/ OBJECTS_PER_PAGE * mm_to_pt(wcfg.h.val) > PageHPt

\* C20: in every mode other than exact_mm the slot height is a quarter of
\* the page height and slot k is the k-th band from the top; an object
\* wider or taller than its slot is an input error; otherwise the object is
\* centred in its slot on both axes and lies inside it.
C20_LegacyCentred ==
    wcfg.mode # "exact_mm" =>
        /\ \A k \in DOMAIN visited :
                LET r == visited[k].slot_rect
                    o == visited[k].object_rect
                    i == visited[k].slot
                IN  /\ OBJECTS_PER_PAGE * r.h = PageHPt
                    /\ r.x = 0 /\ r.w = PageWPt
                    /\ r.y_top = i * r.h
                    /\ r.y = PageHPt - ((i + 1) * r.h)
                    /\ visited[k].filled =>
                            /\ 2 * (o.x - r.x) = r.w - o.w
                            /\ 2 * (o.y - r.y) = r.h - o.h
                            /\ r.x <= o.x /\ o.x + o.w <= r.x + r.w
                            /\ r.y <= o.y /\ o.y + o.h <= r.y + r.h
        /\ ObjectExceedsSlot =>
                /\ visited = <<>> /\ ops = <<>>
                /\ wpc \in {"start", "slot", "error"}
                /\ wpc = "error" => werr = "Object size exceeds slot size"
        /\ werr = "Object size exceeds slot size" => ObjectExceedsSlot

C20_Witness ==
    /\ wcfg.mode = "draft"
    /\ wcfg.cut_margin_mm = Num(Mm(3))
    /\ wpc = "done"
    /\ Len(visited) >= OBJECTS_PER_PAGE
    /\ visited[1].filled
    /\ visited[1].object_rect.x = (PageWPt - mm_to_pt(Mm(50))) \div 2
    /\ visited[4].slot_rect.y = 0


(***************************************************************************)
(* Outlined text: the cursor and the advances.                              *)
(***************************************************************************)
\* The entries for (left, right) in the horizontal subtables of the font's
\* kern table, as <<subtable, position, value>>, values of 0 aside.
HorizontalEntries(font, left, right) ==
    {<<t, n, font.kern[t].pairs[n].val>> :
        <<t, n>> \in {tn \in (DOMAIN font.kern) \X (1..4) :
                        /\ tn[2] \in DOMAIN font.kern[tn[1]].pairs
                        /\ font.kern[tn[1]].coverage % 2 = 1
                        /\ font.kern[tn[1]].pairs[tn[2]].left = left
                        /\ font.kern[tn[1]].pairs[tn[2]].right = right
                        /\ font.kern[tn[1]].pairs[tn[2]].val # 0}}

\* The kerning of the pair: 0 when the horizontal table has no entry.
KernOf(font, left, right) ==
    LET es == HorizontalEntries(font, left, right)
    IN  IF es = {} THEN 0
        ELSE (CHOOSE e \in es : \A f \in es :
                 f[1] < e[1] \/ (f[1] = e[1] /\ f[2] <= e[2]))[3]

RECURSIVE SumAdvances(_, _, _)
SumAdvances(font, text, n) ==
    IF n = 0 THEN 0
    ELSE SumAdvances(font, text, n - 1) + AdvanceWidth(font, GlyphName(text[n]))

RECURSIVE SumKerns(_, _, _)
SumKerns(font, text, n) ==
    IF n <= 1 THEN 0
    ELSE SumKerns(font, text, n - 1)
         + KernOf(font, GlyphName(text[n - 1]), GlyphName(text[n]))

\* C21: glyph i is drawn at the sum of the advance widths of the glyphs
\* before it plus the sum of the kernings of the pairs up to it (none for the
\* first glyph, 0 for a pair the horizontal kerning table lacks, the glyph's
\* own advance not yet counted), and the advances returned have one entry
\* for each character of the text.
C21_CursorIsAdvancesPlusKerns ==
    /\ \A i \in DOMAIN odrawn :
          /\ odrawn[i].glyph = GlyphName(otext[i])
          /\ odrawn[i].cursor = SumAdvances(ofont, otext, i - 1) + SumKerns(ofont, otext, i)
    /\ Len(oadv) = Len(odrawn)
    /\ \A i \in DOMAIN oadv : oadv[i] = AdvanceWidth(ofont, odrawn[i].glyph) * osize
    /\ opc = "done" => Len(oadv) = Len(otext)

\* "AVA" in the kerned font has been outlined: A at 0, V at 600 - 80, the
\* second A at 600 - 80 + 650 - 50.
C21_Witness ==
    /\ opc = "done"
    /\ ofont.name = "kerned"
    /\ otext = <<"A", "V", "A">>
    /\ odrawn[1].cursor = 0
    /\ odrawn[2].cursor = 520
    /\ odrawn[3].cursor = 1120
    /\ Len(oadv) = 3


(***************************************************************************)
(* The family name read from a font file.                                   *)
(***************************************************************************)
\* The positions of the usable family-name records: nameID 1, a value that
\* can be read and is not empty.
UsableNames(names) ==
    {n \in DOMAIN names : /\ names[n].nameID = 1
                          /\ RecordValue(names[n]) # Undecodable
                          /\ RecordValue(names[n]) # Str("")}
WindowsNames(names) == {n \in UsableNames(names) : names[n].platformID = 3}
FirstOf(S) == CHOOSE n \in S : \A m \in S : n <= m
LastOf(S) == CHOOSE n \in S : \A m \in S : m <= n

\* C22: the family returned is the value of the first usable Windows record
\* (platformID 3) if there is one, otherwise the value of the first usable
\* family-name record in table order.
C22_WindowsElseFirst ==
    (npc = "done" /\ nnames # NoNameTable) =>
        nret = IF WindowsNames(nnames.names) # {}
               THEN RecordValue(nnames.names[FirstOf(WindowsNames(nnames.names))])
               ELSE IF UsableNames(nnames.names) # {}
               THEN RecordValue(nnames.names[FirstOf(UsableNames(nnames.names))])
               ELSE NoFamily

\* What the loop returns: the value of the first usable Windows record, and
\* without one the value of the last usable record.
WindowsElseLast ==
    (npc = "done" /\ nnames # NoNameTable) =>
        nret = IF WindowsNames(nnames.names) # {}
               THEN RecordValue(nnames.names[FirstOf(WindowsNames(nnames.names))])
               ELSE IF UsableNames(nnames.names) # {}
               THEN RecordValue(nnames.names[LastOf(UsableNames(nnames.names))])
               ELSE NoFamily


(***************************************************************************)
(* resolve_font_family called twice.                                        *)
(***************************************************************************)
Triple(e) == <<e.family, e.source, e.embedded>>

\* Two successive calls for the same requested family, the registration of
\* the font file failing in both or in neither.
SameCallTwice ==
    /\ Len(fhist) = 2
    /\ fhist[1].requested = fhist[2].requested
    /\ fhist[1].regfail = fhist[2].regfail

\* C23: with a fixed font registry, two successive calls of
\* resolve_font_family for the same requested family return the same
\* (resolved_family, source, embedded), although the first may have
\* registered the font with the renderer.
C23_Repeatable == SameCallTwice => Triple(fhist[1]) = Triple(fhist[2])

\* The two calls agree unless the first registered the font under the very
\* name requested: the second then reports the source "registered".
RepeatableUnlessRegistered ==
    SameCallTwice =>
        \/ Triple(fhist[1]) = Triple(fhist[2])
        \/ /\ fhist[1].family = Strip(fhist[1].requested)
           /\ fhist[1].source = "system"
           /\ fhist[1].embedded
           /\ Triple(fhist[2]) = <<fhist[1].family, "registered", TRUE>>

\* Differently spelt, the same font is resolved twice with the same result.
RepeatedOtherSpelling ==
    /\ SameCallTwice
    /\ fhist[1].requested = "ARIAL"
    /\ fhist[1].embedded
    /\ Triple(fhist[1]) = Triple(fhist[2])


(***************************************************************************)
(* Large cut margins.                                                       *)
(***************************************************************************)
\* The rectangle lies on the page and has a height above 0.
InsidePage(r) ==
    /\ r.h > 0
    /\ r.x >= 0 /\ r.x + r.w <= PageWPt
    /\ r.y >= 0 /\ r.y + r.h <= PageHPt

SlotsInsidePage == \A k \in DOMAIN visited : InsidePage(visited[k].slot_rect)

\* page_height - 3 * cut_margin is not positive.
MarginLeavesNoSlot == PageHPt - (3 * ClampedMarginPt) <= 0

\* C24: in exact_mm every slot of an accepted cut margin (negative ones
\* clamped to 0) has a height above 0 and lies inside the A4 page, and a
\* margin that leaves page_height - 3 * cut_margin at or below 0 is rejected:
\* no slot is laid out and no PDF written for it.
C24_LargeMarginRejected ==
    wcfg.mode = "exact_mm" =>
        /\ SlotsInsidePage
        /\ MarginLeavesNoSlot => (visited = <<>> /\ ~saved)

\* For the margins that leave room the slots are inside the page.
SmallMarginSlotsInsidePage ==
    (wcfg.mode = "exact_mm" /\ ~MarginLeavesNoSlot) => SlotsInsidePage

\* A file was written with slots of negative height.
LargeMarginRendered ==
    /\ wcfg.mode = "exact_mm"
    /\ wcfg.cut_margin_mm = Num(Mm(100))
    /\ saved
    /\ visited # <<>>
    /\ \A k \in DOMAIN visited : visited[k].slot_rect.h < 0


(***************************************************************************)
(* The cached background conversion, call after call.                       *)
(***************************************************************************)
BeginsWithSignature(file) == file \in {"pdf", "partial"}
EndedFor(f) == \E e \in blog : PdfPath(sha256_hex(<<e.svg>>)) = f

C26_ConcurrentConversionsSafe ==
    /\ \A d \in bdel : ~d.being_written
    /\ \A e \in blog : e.result = "path" => e.file = "pdf"

\* A caller unlinked the file another caller was writing.
DeletedWhileWritten == \E d \in bdel : d.being_written

\* A caller returned the cached path of a file that was not yet all written.
ReturnedIncomplete ==
    \E e \in blog : e.result = "path" /\ e.via = "cached" /\ e.file = "partial"

\* A conversion of a valid SVG failed because its output was unlinked.
ValidConversionFailed ==
    \E e \in blog : e.svg = "svgA" /\ e.result = "error"

====
